---- MODULE Spec2Model ----
(***************************************************************************)
(* A model of gitty (LFroesch/git-helper): the command executor            *)
(* (internal/git/git.go, Execute), the operation commands that call it     *)
(* (helpers.go) and the interaction state machine (Update and the key      *)
(* handlers).                                                              *)
(***************************************************************************)
EXTENDS Integers, Sequences, FiniteSets, TLC

VARIABLES
    \* ---- command executor and its callers (git.go, helpers.go) ----
    lockFile,     \* TRUE iff <repo>/.git/index.lock exists
    op,           \* the operation command that is running, or "none"
    opStep,       \* index of the next invocation of the running operation
    exPc,         \* "idle" | "loop" (inside Execute's for loop) | "returned"
    attempt,      \* Execute's loop variable
    retryDelay,   \* Execute's retryDelay, in milliseconds
    sleeps,       \* the durations slept by the current Execute call, in order
    spawns,       \* subprocesses spawned by the current Execute call
    seen,         \* what each attempt of the current Execute call met
    result,       \* what the current Execute call returned
    lastSpawn,    \* the most recent subprocess spawn of any component
    \* ---- interaction state machine (main.go model, Update) ----
    m,            \* the model value the event loop holds
    cmd,          \* the tea.Cmd the last Update returned, as a batch
    pending,      \* commands running off the loop whose result is still due
    keys,         \* key presses delivered so far
    msgs,         \* command results delivered so far
    running,      \* FALSE once tea.Quit was returned
    \* ---- one list window (hooks.go adjust*Scroll) ----
    win,          \* a list with its cursor, its scroll offset and m.height
    \* ---- output parsers (git.go GetStatus, GetChanges, GetBranches) ----
    raw,          \* what the tool printed, and whether it failed
    parsed,       \* what the parsers made of it
    \* ---- the rebase plan (hooks.go handleRebaseKey, git.go ExecuteRebase) ----
    rb,           \* rebase mode: the plan, its cursor, the script handed over
    \* ---- reloads after mutations (helpers.go, hooks.go Update) ----
    sync,         \* the repository, what the view holds, commands in flight
    \* ---- hook files (hooks.go InstallHook, helpers.go install*Hook) ----
    hk,           \* .git/hooks, the two installed flags, commands in flight
    \* ---- staging toggles (helpers.go toggleStaging) ----
    tg,           \* the index, and the toggle commands in flight
    \* ---- the diff pane (hooks.go Update diffMsg, helpers.go loadFileDiff) ----
    dv,           \* file list and cursor, diffContent, loads in flight
    \* ---- commit suggestions (helpers.go generateCommitSuggestions) ----
    sg            \* the change list, m.suggestions, the selected index

exVars == <<lockFile, op, opStep, exPc, attempt, retryDelay, sleeps, spawns,
            seen, result, lastSpawn>>

uiVars == <<m, cmd, pending, keys, msgs, running>>

vars == <<lockFile, op, opStep, exPc, attempt, retryDelay, sleeps, spawns,
          seen, result, lastSpawn, m, cmd, pending, keys, msgs, running,
          win, raw, parsed, rb, sync, hk, tg, dv, sg>>

scrollVars == <<win>>

parseVars == <<raw, parsed>>

rebaseVars == <<rb>>

syncVars == <<sync>>

hookVars == <<hk>>

toggleVars == <<tg>>

diffVars == <<dv>>

suggestVars == <<sg>>

\* The variables neither the executor nor the key and message handlers of
\* the interaction state machine touch.
sideVars ==
    <<scrollVars, parseVars, rebaseVars, syncVars, hookVars, toggleVars,
      diffVars, suggestVars>>

-----------------------------------------------------------------------------
(* Command executor: git.go, Execute                                       *)

\* A cap that lets a fourth attempt through.
maxRetries_four == 3 + 1

maxRetries == 3

InitialRetryDelay == 100

LockMarker == "index.lock"

\* Combined stdout/stderr of the tool, as a sequence of words.
Outputs ==
    { <<>>,
      <<"nothing", "to", "commit">>,
      <<"fatal", "unable", "to", "create", "index.lock", "file", "exists">> }

\* strings.Contains(string(output), "index.lock")
ContainsLock(out) == \E i \in 1..Len(out) : out[i] = LockMarker

\* cmd.CombinedOutput(): the output and a nil error or an *exec.ExitError.
SpawnOutcomes == [out : Outputs, err : {"nil", "exit"}]

NoResult == [out |-> <<>>, err |-> "none", set |-> FALSE]

\* The error of Execute's last line: fmt.Errorf("... index.lock conflict").
LockConflict == [out |-> <<>>, err |-> "lockconflict", set |-> TRUE]

NoOutcome == [out |-> <<>>, err |-> "none"]

NoSpawn == [op |-> "none", cmd |-> "none", via |-> "none", locked |-> FALSE,
            outcome |-> NoOutcome]

\* The marker file is never looked at.
MarkerPresent_skipped == FALSE

\* Line 90: _, err := os.Stat(lockFile); err == nil
MarkerPresent == lockFile

\* Every failed spawn is taken for a lock failure.
IsLockFailure_anyError(outcome) == outcome.err # "nil"

\* Line 101: err != nil && strings.Contains(string(output), "index.lock")
IsLockFailure(outcome) == outcome.err # "nil" /\ ContainsLock(outcome.out)

\* The interval is not doubled.
DelayAfterLockFailure_constant(d) == d

\* Line 103: retryDelay *= 2, after a spawn that failed on the lock.
DelayAfterLockFailure(d) == d * 2

\* Lines 90-93: a wait on the marker file leaves retryDelay as it is.
DelayAfterMarkerWait(d) == d

\* Line 107: return output, err.
ReturnOf(outcome) == [out |-> outcome.out, err |-> outcome.err, set |-> TRUE]

-----------------------------------------------------------------------------
(* Operation commands and queries: the tool invocations each makes, in     *)
(* order.  via "Execute" is a call of git.Execute; via "direct" is an      *)
(* exec.Command run by the function itself.  stop says when the command    *)
(* returns early: on the invocation's error, on what it printed, or never. *)

Inv(c, via, stop) == [cmd |-> c, via |-> via, stop |-> stop]

\* helpers.go toggleStaging: git.IsFileStaged, then git.Execute(add | reset).
ProgStage ==
    << Inv("diff --cached --name-only", "direct", "never"),
       Inv("add|reset", "Execute", "onError") >>

\* helpers.go commitWithMessage: GetStagedFiles, GetStagedDiff, Execute,
\* GetCurrentCommitHash.
ProgCommit ==
    << Inv("diff --cached --name-only", "direct", "onOutput"),
       Inv("diff --cached", "direct", "never"),
       Inv("commit -m", "Execute", "onError"),
       Inv("rev-parse --short HEAD", "direct", "never") >>

\* helpers.go pushChanges: Execute, GetCurrentCommitHash.
ProgPush ==
    << Inv("push", "Execute", "onError"),
       Inv("rev-parse --short HEAD", "direct", "never") >>

\* helpers.go loadGitStatus -> git.GetStatus: GetBranchName,
\* GetAheadBehindCount, status --porcelain.
ProgStatus ==
    << Inv("rev-parse --abbrev-ref HEAD", "direct", "never"),
       Inv("status -sb", "direct", "never"),
       Inv("status --porcelain", "direct", "onError") >>

\* helpers.go loadBranches: git.GetBranches, git.GetRemoteBranches.
ProgBranches ==
    << Inv("branch -vv", "direct", "never"),
       Inv("branch -r", "direct", "never") >>

\* helpers.go loadLogCommits -> git.GetCommitLog2.
ProgLog == << Inv("log", "direct", "never") >>

\* helpers.go loadBlame -> git.GetBlame.
ProgBlame == << Inv("blame --porcelain", "direct", "never") >>

\* helpers.go executeRebase -> git.ExecuteRebase: cmd.CombinedOutput().
ProgRebase == << Inv("rebase -i", "direct", "onError") >>

\* helpers.go cloneRepo -> git.Clone.
ProgClone == << Inv("clone", "direct", "never") >>

\* helpers.go initRepo -> git.Init.
ProgInit == << Inv("init", "direct", "onError") >>

\* helpers.go stashPop -> git.StashPop -> Execute.
ProgStashPop == << Inv("stash pop", "Execute", "onError") >>

Ops == {"stage", "commit", "push", "status", "branches", "log", "blame",
        "rebase", "clone", "init", "stashPop"}

Program(o) ==
    CASE o = "stage"    -> ProgStage
      [] o = "commit"   -> ProgCommit
      [] o = "push"     -> ProgPush
      [] o = "status"   -> ProgStatus
      [] o = "branches" -> ProgBranches
      [] o = "log"      -> ProgLog
      [] o = "blame"    -> ProgBlame
      [] o = "rebase"   -> ProgRebase
      [] o = "clone"    -> ProgClone
      [] o = "init"     -> ProgInit
      [] o = "stashPop" -> ProgStashPop

CurrentInv == Program(op)[opStep]

\* The words of the statusMsg a command returns when its git.Execute call
\* gave an error: helpers.go 113 (toggleStaging), 213 (commitWithMessage),
\* 377 (pushChanges), 500 (stashPop, which gets only the error of
\* git.StashPop, git.go 575-578).
FailureMessage(o, res) ==
    CASE o = "stage" ->
           <<"Failed", "to", "staged|unstaged", "file:", "exit status 1",
             "-">>
              \o res.out
      [] o = "commit" ->
           <<"Commit", "failed", "-", "check", "commit", "message", "format">>
      [] o = "push" -> <<"Push", "failed:">> \o res.out
      [] o = "stashPop" -> <<"Stash", "pop", "failed:", "exit status 1">>

\* The operation goes on to its next invocation, or returns after the last.
Advance(stopNow) ==
    IF stopNow \/ opStep = Len(Program(op))
    THEN op' = "none" /\ opStep' = 0
    ELSE op' = op /\ opStep' = opStep + 1

ExInit ==
    /\ lockFile = FALSE
    /\ op = "none"
    /\ opStep = 0
    /\ exPc = "idle"
    /\ attempt = 0
    /\ retryDelay = InitialRetryDelay
    /\ sleeps = <<>>
    /\ spawns = 0
    /\ seen = <<>>
    /\ result = NoResult
    /\ lastSpawn = NoSpawn

\* Another process takes or releases the repository lock.
LockToggle ==
    /\ UNCHANGED <<uiVars, sideVars>>
    /\ lockFile' = ~lockFile
    /\ UNCHANGED <<op, opStep, exPc, attempt, retryDelay, sleeps, spawns,
                   seen, result, lastSpawn>>

\* The event loop runs an operation command off the loop.
StartOp ==
    /\ UNCHANGED <<uiVars, sideVars>>
    /\ op = "none"
    /\ \E o \in Ops : op' = o
    /\ opStep' = 1
    /\ UNCHANGED <<lockFile, exPc, attempt, retryDelay, sleeps, spawns, seen,
                   result, lastSpawn>>

\* An invocation made with exec.Command by the function itself.
DirectSpawn ==
    /\ UNCHANGED <<uiVars, sideVars>>
    /\ op # "none"
    /\ exPc = "idle"
    /\ CurrentInv.via = "direct"
    /\ \E outcome \in SpawnOutcomes :
          /\ lastSpawn' = [op |-> op, cmd |-> CurrentInv.cmd, via |-> "direct",
                           locked |-> lockFile, outcome |-> outcome]
          /\ Advance(IF CurrentInv.stop = "onError" THEN outcome.err # "nil"
                     ELSE CurrentInv.stop = "onOutput" /\ outcome.out = <<>>)
    /\ UNCHANGED <<lockFile, exPc, attempt, retryDelay, sleeps, spawns, seen,
                   result>>

\* git.go 84-87: entry of Execute.
CallExecute ==
    /\ UNCHANGED <<uiVars, sideVars>>
    /\ op # "none"
    /\ exPc = "idle"
    /\ CurrentInv.via = "Execute"
    /\ exPc' = "loop"
    /\ attempt' = 0
    /\ retryDelay' = InitialRetryDelay
    /\ sleeps' = <<>>
    /\ spawns' = 0
    /\ seen' = <<>>
    /\ result' = NoResult
    /\ UNCHANGED <<lockFile, op, opStep, lastSpawn>>

\* git.go 88-110: one iteration of Execute's loop, and the return after the
\* loop when that was the last iteration.
ExecuteAttempt ==
    /\ UNCHANGED <<uiVars, sideVars>>
    /\ exPc = "loop"
    /\ attempt < maxRetries
    /\ attempt' = attempt + 1
    /\ IF MarkerPresent
       THEN /\ sleeps' = Append(sleeps, retryDelay)
            /\ retryDelay' = DelayAfterMarkerWait(retryDelay)
            /\ seen' = Append(seen, "marker")
            /\ IF attempt + 1 < maxRetries
               THEN exPc' = "loop" /\ result' = result
               ELSE exPc' = "returned" /\ result' = LockConflict
            /\ UNCHANGED <<spawns, lastSpawn>>
       ELSE \E outcome \in SpawnOutcomes :
            /\ spawns' = spawns + 1
            /\ lastSpawn' = [op |-> op, cmd |-> CurrentInv.cmd,
                             via |-> "Execute", locked |-> lockFile,
                             outcome |-> outcome]
            /\ IF IsLockFailure(outcome)
               THEN /\ sleeps' = Append(sleeps, retryDelay)
                    /\ retryDelay' = DelayAfterLockFailure(retryDelay)
                    /\ seen' = Append(seen, "lockfail")
                    /\ IF attempt + 1 < maxRetries
                       THEN exPc' = "loop" /\ result' = result
                       ELSE exPc' = "returned" /\ result' = LockConflict
               ELSE /\ exPc' = "returned"
                    /\ result' = ReturnOf(outcome)
                    /\ seen' = Append(seen, IF outcome.err = "nil"
                                             THEN "ok" ELSE "fail")
                    /\ UNCHANGED <<sleeps, retryDelay>>
    /\ UNCHANGED <<lockFile, op, opStep>>

\* The caller takes Execute's result: on an error it returns a statusMsg.
ExecuteReturn ==
    /\ UNCHANGED <<uiVars, sideVars>>
    /\ exPc = "returned"
    /\ exPc' = "idle"
    /\ Advance(CurrentInv.stop = "onError" /\ result.err # "nil")
    /\ UNCHANGED <<lockFile, attempt, retryDelay, sleeps, spawns, seen,
                   result, lastSpawn>>

NextExec ==
    \/ LockToggle
    \/ StartOp
    \/ DirectSpawn
    \/ CallExecute
    \/ ExecuteAttempt
    \/ ExecuteReturn

-----------------------------------------------------------------------------
(* Interaction state machine: main.go (model, initialModel) and Update     *)
(* with its key handlers.  The model value is a record m; every handler is *)
(* an operator from m (and the key) to the pair Update returns: the new    *)
(* model and the command batch.                                            *)

MaxLen == 2    \* longest list a command result delivers

MaxKeys == 5   \* key presses in one run

MaxMsgs == 1   \* command results delivered in one run

\* A tea.Cmd with the argument it was built with (0 when it has none).
Cmd(name, arg) == [name |-> name, arg |-> arg]

\* What Update returns: (tea.Model, tea.Cmd); a nil command is <<>>.
Ret(mm, batch) == [m |-> mm, cmd |-> batch]

\* The keys the handlers tell apart, and "z", a key no handler names.
Printable ==
    {"q", "1", "2", "3", "4", "5", "j", "k", " ", "a", "r", "b", "d", "p",
     "w", "s", "c", "R", "n", "t", "h", "u", "f", "l", "g", "o", "i", "x",
     "/", "P", "z"}

Keys == Printable \cup {"ctrl+c", "enter", "esc", "tab", "up", "down"}

\* The digit keys an input can see: handleKeyPress takes "1" to "4" before
\* any input does (hooks.go 469-484).
Digits == {"5"}

Inputs == {"commitInput", "branchInput", "rebaseInput", "tagInput",
           "logSearchInput", "cloneInput", "initInput"}

\* main.go initialModel: CharLimit of each text input.
CharLimit(input) ==
    CASE input = "commitInput"    -> 200
      [] input = "branchInput"    -> 100
      [] input = "rebaseInput"    -> 3
      [] input = "tagInput"       -> 50
      [] input = "logSearchInput" -> 100
      [] input = "cloneInput"     -> 200
      [] input = "initInput"      -> 200

\* The value of a text input, as far as the handlers and commands look at
\* it: its length and what strings.TrimSpace of it is: "" (kind "empty" when
\* the value is empty too, "blank" when it is spaces), an integer in 1..50
\* ("count", "countsp" when spaces follow the digits) or any other text
\* ("text"; a second digit 5 makes 55, which is no count in 1..50).
EmptyValue == [kind |-> "empty", len |-> 0]

\* bubbles textinput.Update on a key press: a blurred input ignores it, a
\* full one too; else the character is appended.
TypeKey(mm, input, key) ==
    LET v == mm.value[input]
        kind == CASE key = " " ->
                       (CASE v.kind = "empty" -> "blank"
                          [] v.kind = "count" -> "countsp"
                          [] OTHER -> v.kind)
                  [] key \in Digits ->
                       (IF v.kind \in {"empty", "blank"} THEN "count"
                        ELSE "text")
                  [] OTHER -> "text"
    IN  IF input \in mm.focused /\ key \in Printable
           /\ v.len < CharLimit(input)
        THEN [mm EXCEPT !.value[input] = [kind |-> kind, len |-> v.len + 1]]
        ELSE mm

\* strings.TrimSpace(input.Value()) != ""
HasText(mm, input) == mm.value[input].kind \in {"text", "count", "countsp"}

\* helpers.go 76-80: strconv.Atoi of the trimmed value gives 1..50
IsCount(mm, input) == mm.value[input].kind \in {"count", "countsp"}

SetValueEmpty(mm, input) == [mm EXCEPT !.value[input] = EmptyValue]

Focus(mm, input) == [mm EXCEPT !.focused = @ \cup {input}]

Blur(mm, input) == [mm EXCEPT !.focused = @ \ {input}]

\* main.go initialModel.
initialModel ==
    [ tab |-> "workspace", toolMode |-> "menu", viewMode |-> "files",
      confirmAction |-> "",
      changes |-> 0, fileCursor |-> 0,
      suggestions |-> 0, selectedSuggestion |-> 0,
      branches |-> <<>>, branchCursor |-> 0,
      commits |-> 0, undoCursor |-> 0,
      conflicts |-> 0, conflictCursor |-> 0,
      rebaseCommits |-> 0,
      stashes |-> 0, stashCursor |-> 0,
      tags |-> 0, tagCursor |-> 0,
      logCommits |-> 0, logCursor |-> 0,
      cleanFiles |-> 0,
      rebaseCursor |-> 0, hookCursor |-> 0,
      toolCursor |-> 0,
      commitSummary |-> FALSE, branchComparison |-> FALSE,
      logDetail |-> FALSE,
      focused |-> {},
      value |-> [i \in Inputs |-> EmptyValue] ]

Max(a, b) == IF a > b THEN a ELSE b

\* hooks.go 284-286 and alike: if cursor >= len { cursor = max(0, len-1) }
Clamp(cursor, len) == IF cursor >= len THEN Max(0, len - 1) ELSE cursor

\* The guard with the first press dispatching the command.
Confirm_dispatchesAtOnce(mm, token, c) ==
    IF mm.confirmAction \in {"", token}
    THEN Ret([mm EXCEPT !.confirmAction = ""], <<c>>)
    ELSE Ret(mm, <<>>)

\* The guard with the token left in place by the confirming press.
Confirm_keepsToken(mm, token, c) ==
    IF mm.confirmAction = ""
    THEN Ret([mm EXCEPT !.confirmAction = token], <<>>)
    ELSE IF mm.confirmAction = token
         THEN Ret(mm, <<c>>)
         ELSE Ret(mm, <<>>)

\* The guard every destructive or remote key carries (hooks.go 621-629,
\* 658-666, 795-802, 915-923, 927-935, 979-987, 1025-1032, 1072-1080,
\* 1160-1167, 1179-1186, 1236-1243, 1364-1371, 1393-1400): the first press
\* sets the token, a press with the token set clears it and returns the
\* command, a press under another token does nothing.
Confirm(mm, token, c) ==
    IF mm.confirmAction = ""
    THEN Ret([mm EXCEPT !.confirmAction = token], <<>>)
    ELSE IF mm.confirmAction = token
         THEN Ret([mm EXCEPT !.confirmAction = ""], <<c>>)
         ELSE Ret(mm, <<>>)

Down(key) == key \in {"j", "down"}

Up(key) == key \in {"k", "up"}

\* hooks.go 502-670
handleWorkspaceKey(mm, key) ==
    CASE mm.viewMode = "diff" ->
           IF key = "esc" THEN Ret([mm EXCEPT !.viewMode = "files"], <<>>)
           ELSE Ret(mm, <<>>)
      [] mm.viewMode = "blame" ->
           IF key = "esc" THEN Ret([mm EXCEPT !.viewMode = "files"], <<>>)
           ELSE Ret(mm, <<>>)
      [] mm.viewMode = "conflicts" ->
           CASE key = "esc" ->
                  Ret([mm EXCEPT !.viewMode = "files", !.conflicts = 0], <<>>)
             [] Down(key) ->
                  IF mm.conflictCursor < mm.conflicts - 1
                  THEN Ret([mm EXCEPT !.conflictCursor = @ + 1], <<>>)
                  ELSE Ret(mm, <<>>)
             [] Up(key) ->
                  IF mm.conflictCursor > 0
                  THEN Ret([mm EXCEPT !.conflictCursor = @ - 1], <<>>)
                  ELSE Ret(mm, <<>>)
             [] key = "enter" ->
                  IF mm.conflictCursor < mm.conflicts
                  THEN Ret([mm EXCEPT !.viewMode = "diff"],
                           <<Cmd("loadFileDiff", mm.conflictCursor)>>)
                  ELSE Ret(mm, <<>>)
             [] OTHER -> Ret(mm, <<>>)
      [] OTHER ->
           CASE Down(key) ->
                  IF mm.fileCursor < mm.changes - 1
                  THEN Ret([mm EXCEPT !.fileCursor = @ + 1],
                           <<Cmd("loadFileDiff", mm.fileCursor + 1)>>)
                  ELSE Ret(mm, <<>>)
             [] Up(key) ->
                  IF mm.fileCursor > 0
                  THEN Ret([mm EXCEPT !.fileCursor = @ - 1],
                           IF mm.fileCursor - 1 < mm.changes
                           THEN <<Cmd("loadFileDiff", mm.fileCursor - 1)>>
                           ELSE <<>>)
                  ELSE Ret(mm, <<>>)
             [] key = " " ->
                  IF mm.fileCursor < mm.changes
                  THEN Ret(mm, <<Cmd("toggleStaging", mm.fileCursor)>>)
                  ELSE Ret(mm, <<>>)
             [] key = "a" -> Ret(mm, <<Cmd("gitAddAll", 0)>>)
             [] key = "r" -> Ret(mm, <<Cmd("gitReset", 0)>>)
             [] key = "enter" -> Ret([mm EXCEPT !.viewMode = "diff"], <<>>)
             [] key = "b" ->
                  IF mm.fileCursor < mm.changes
                  THEN Ret([mm EXCEPT !.viewMode = "blame"],
                           <<Cmd("loadBlame", mm.fileCursor)>>)
                  ELSE Ret(mm, <<>>)
             [] key = "d" ->
                  IF mm.fileCursor < mm.changes
                  THEN Confirm(mm, "discard",
                               Cmd("discardChanges", mm.fileCursor))
                  ELSE Ret(mm, <<>>)
             [] key = "esc" -> Ret([mm EXCEPT !.confirmAction = ""], <<>>)
             [] key = "c" ->
                  Ret([mm EXCEPT !.viewMode = "conflicts"],
                      <<Cmd("loadConflicts", 0)>>)
             [] key = "R" ->
                  Confirm(mm, "reset-commit", Cmd("gitResetLastCommit", 0))
             [] OTHER -> Ret(mm, <<>>)

\* hooks.go 672-732
handleCommitKey(mm, key) ==
    IF mm.commitSummary
    THEN CASE key = "p" -> Ret(mm, <<Cmd("pushChanges", 0)>>)
           [] key = "c" ->
                Ret([mm EXCEPT !.commitSummary = FALSE],
                    <<Cmd("loadGitChanges", 0), Cmd("loadGitStatus", 0)>>)
           [] OTHER -> Ret(mm, <<>>)
    ELSE CASE key = "enter" ->
                IF HasText(mm, "commitInput")
                THEN Ret(mm, <<Cmd("commitWithMessage", 0)>>)
                ELSE IF mm.selectedSuggestion > 0
                        /\ mm.selectedSuggestion <= mm.suggestions
                     THEN Ret(mm, <<Cmd("commitWithMessage",
                                        mm.selectedSuggestion)>>)
                     ELSE Ret(mm, <<>>)
           [] key = "esc" ->
                Ret([Blur(SetValueEmpty(mm, "commitInput"), "commitInput")
                        EXCEPT !.selectedSuggestion = 0], <<>>)
           [] key = "up" ->
                IF mm.selectedSuggestion > 0
                THEN Ret([mm EXCEPT !.selectedSuggestion = @ - 1], <<>>)
                ELSE Ret(mm, <<>>)
           [] key = "down" ->
                IF mm.selectedSuggestion < mm.suggestions
                THEN Ret([mm EXCEPT !.selectedSuggestion = @ + 1], <<>>)
                ELSE Ret(mm, <<>>)
           [] key = "tab" -> Ret(Focus(mm, "commitInput"), <<>>)
           [] OTHER -> Ret(TypeKey(mm, "commitInput", key), <<>>)

\* hooks.go 734-820
handleBranchesKey(mm, key) ==
    CASE mm.branchComparison ->
           IF key = "esc"
           THEN Ret([mm EXCEPT !.branchComparison = FALSE], <<>>)
           ELSE Ret(mm, <<>>)
      [] "branchInput" \in mm.focused ->
           CASE key = "enter" ->
                  IF HasText(mm, "branchInput")
                  THEN Ret(Blur(SetValueEmpty(mm, "branchInput"),
                                "branchInput"),
                           <<Cmd("createBranch", 0)>>)
                  ELSE Ret(mm, <<>>)
             [] key = "esc" ->
                  Ret(Blur(SetValueEmpty(mm, "branchInput"), "branchInput"),
                      <<>>)
             [] OTHER -> Ret(TypeKey(mm, "branchInput", key), <<>>)
      [] OTHER ->
           CASE Down(key) ->
                  IF mm.branchCursor < Len(mm.branches) - 1
                  THEN Ret([mm EXCEPT !.branchCursor = @ + 1], <<>>)
                  ELSE Ret(mm, <<>>)
             [] Up(key) ->
                  IF mm.branchCursor > 0
                  THEN Ret([mm EXCEPT !.branchCursor = @ - 1], <<>>)
                  ELSE Ret(mm, <<>>)
             [] key = "enter" ->
                  IF mm.branchCursor < Len(mm.branches)
                  THEN Ret(mm, <<Cmd("switchBranch", mm.branchCursor)>>)
                  ELSE Ret(mm, <<>>)
             [] key = "n" ->
                  Ret(Focus(mm, "branchInput"), <<Cmd("Blink", 0)>>)
             [] key = "d" ->
                  IF mm.branchCursor < Len(mm.branches)
                     /\ ~mm.branches[mm.branchCursor + 1]
                  THEN Confirm(mm, "delete-branch",
                               Cmd("deleteBranch", mm.branchCursor))
                  ELSE Ret(mm, <<>>)
             [] key = "c" ->
                  IF mm.branchCursor < Len(mm.branches)
                  THEN Ret(mm, <<Cmd("compareBranch", mm.branchCursor)>>)
                  ELSE Ret(mm, <<>>)
             [] key = "esc" -> Ret([mm EXCEPT !.confirmAction = ""], <<>>)
             [] OTHER -> Ret(mm, <<>>)

\* hooks.go 957-1007
selectToolMenuItem(mm) ==
    CASE mm.toolCursor = 0 ->
           Ret([mm EXCEPT !.toolMode = "log"], <<Cmd("loadLogCommits", 0)>>)
      [] mm.toolCursor = 1 ->
           Ret([mm EXCEPT !.toolMode = "stash"], <<Cmd("loadStashList", 0)>>)
      [] mm.toolCursor = 2 ->
           Ret([mm EXCEPT !.toolMode = "tags"], <<Cmd("loadTags", 0)>>)
      [] mm.toolCursor = 3 ->
           Ret([mm EXCEPT !.toolMode = "history"],
               <<Cmd("loadCommitHistory", 0)>>)
      [] mm.toolCursor = 4 ->
           Ret([mm EXCEPT !.toolMode = "undo"],
               <<Cmd("loadCommitHistory", 0)>>)
      [] mm.toolCursor = 5 ->
           Ret(Focus([mm EXCEPT !.toolMode = "rebase"], "rebaseInput"),
               <<Cmd("Blink", 0)>>)
      [] mm.toolCursor = 6 -> Confirm(mm, "push", Cmd("pushChanges", 0))
      [] mm.toolCursor = 7 -> Ret(mm, <<Cmd("fetchChanges", 0)>>)
      [] mm.toolCursor = 8 -> Ret([mm EXCEPT !.toolMode = "hooks"], <<>>)
      [] mm.toolCursor = 9 ->
           Ret([mm EXCEPT !.toolMode = "clean"], <<Cmd("loadCleanFiles", 0)>>)
      [] mm.toolCursor = 10 ->
           Ret(Focus([mm EXCEPT !.toolMode = "clone"], "cloneInput"),
               <<Cmd("Blink", 0)>>)
      [] mm.toolCursor = 11 ->
           Ret(Focus([mm EXCEPT !.toolMode = "init"], "initInput"),
               <<Cmd("Blink", 0)>>)
      [] OTHER -> Ret(mm, <<>>)

\* hooks.go 882
maxCursor == 11

\* hooks.go 880-955
handleToolsMenuKey(mm, key) ==
    CASE Down(key) ->
           IF mm.toolCursor < maxCursor
           THEN Ret([mm EXCEPT !.toolCursor = @ + 1], <<>>)
           ELSE Ret(mm, <<>>)
      [] Up(key) ->
           IF mm.toolCursor > 0
           THEN Ret([mm EXCEPT !.toolCursor = @ - 1], <<>>)
           ELSE Ret(mm, <<>>)
      [] key = "enter" -> selectToolMenuItem(mm)
      [] key = "s" ->
           Ret([mm EXCEPT !.toolMode = "stash"], <<Cmd("loadStashList", 0)>>)
      [] key = "t" ->
           Ret([mm EXCEPT !.toolMode = "tags"], <<Cmd("loadTags", 0)>>)
      [] key = "h" ->
           Ret([mm EXCEPT !.toolMode = "history"],
               <<Cmd("loadCommitHistory", 0)>>)
      [] key = "u" ->
           Ret([mm EXCEPT !.toolMode = "undo"],
               <<Cmd("loadCommitHistory", 0)>>)
      [] key = "r" ->
           Ret(Focus([mm EXCEPT !.toolMode = "rebase"], "rebaseInput"),
               <<Cmd("Blink", 0)>>)
      [] key = "p" -> Confirm(mm, "push", Cmd("pushChanges", 0))
      [] key = "f" -> Ret(mm, <<Cmd("fetchChanges", 0)>>)
      [] key = "l" -> Confirm(mm, "pull", Cmd("pullChanges", 0))
      [] key = "g" -> Ret([mm EXCEPT !.toolMode = "hooks"], <<>>)
      [] key = "o" ->
           Ret([mm EXCEPT !.toolMode = "log"], <<Cmd("loadLogCommits", 0)>>)
      [] key = "c" ->
           Ret(Focus([mm EXCEPT !.toolMode = "clone"], "cloneInput"),
               <<Cmd("Blink", 0)>>)
      [] key = "i" ->
           Ret(Focus([mm EXCEPT !.toolMode = "init"], "initInput"),
               <<Cmd("Blink", 0)>>)
      [] key = "x" ->
           Ret([mm EXCEPT !.toolMode = "clean"], <<Cmd("loadCleanFiles", 0)>>)
      [] OTHER -> Ret(mm, <<>>)

\* hooks.go 1009-1038
handleUndoKey(mm, key) ==
    CASE Down(key) ->
           IF mm.undoCursor < mm.commits - 1
           THEN Ret([mm EXCEPT !.undoCursor = @ + 1], <<>>)
           ELSE Ret(mm, <<>>)
      [] Up(key) ->
           IF mm.undoCursor > 0
           THEN Ret([mm EXCEPT !.undoCursor = @ - 1], <<>>)
           ELSE Ret(mm, <<>>)
      [] key = "enter" ->
           IF mm.undoCursor < mm.commits
           THEN Confirm(mm, "undo", Cmd("undoToCommit", mm.undoCursor))
           ELSE Ret(mm, <<>>)
      [] OTHER -> Ret([mm EXCEPT !.confirmAction = ""], <<>>)

\* hooks.go 1040-1084.  The action letters p, s, r, d, f rewrite the plan
\* entry under the cursor and return before the trailing reset of the token.
handleRebaseKey(mm, key) ==
    IF mm.rebaseCommits = 0 THEN Ret(mm, <<>>)
    ELSE CASE Down(key) ->
                IF mm.rebaseCursor < mm.rebaseCommits - 1
                THEN Ret([mm EXCEPT !.rebaseCursor = @ + 1], <<>>)
                ELSE Ret(mm, <<>>)
           [] Up(key) ->
                IF mm.rebaseCursor > 0
                THEN Ret([mm EXCEPT !.rebaseCursor = @ - 1], <<>>)
                ELSE Ret(mm, <<>>)
           [] key \in {"p", "s", "r", "d", "f"} -> Ret(mm, <<>>)
           [] key = "enter" -> Confirm(mm, "rebase", Cmd("executeRebase", 0))
           [] OTHER -> Ret([mm EXCEPT !.confirmAction = ""], <<>>)

\* hooks.go 1086-1102: only the history cursor moves.
handleHistoryKey(mm, key) == Ret(mm, <<>>)

\* hooks.go 1104-1131
handleRemoteKey(mm, key) ==
    CASE key = "p" -> Confirm(mm, "push", Cmd("pushChanges", 0))
      [] key = "f" -> Ret(mm, <<Cmd("fetchChanges", 0)>>)
      [] key = "l" -> Confirm(mm, "pull", Cmd("pullChanges", 0))
      [] OTHER -> Ret([mm EXCEPT !.confirmAction = ""], <<>>)

\* hooks.go 1133-1191
handleStashKey(mm, key) ==
    CASE Down(key) ->
           IF mm.stashCursor < mm.stashes - 1
           THEN Ret([mm EXCEPT !.stashCursor = @ + 1],
                    <<Cmd("loadStashDiff", mm.stashCursor + 1)>>)
           ELSE Ret(mm, <<>>)
      [] Up(key) ->
           IF mm.stashCursor > 0
           THEN Ret([mm EXCEPT !.stashCursor = @ - 1],
                    IF mm.stashCursor - 1 < mm.stashes
                    THEN <<Cmd("loadStashDiff", mm.stashCursor - 1)>>
                    ELSE <<>>)
           ELSE Ret(mm, <<>>)
      [] key = "s" -> Ret(mm, <<Cmd("stashPush", 0)>>)
      [] key \in {"p", "enter"} ->
           IF mm.stashCursor < mm.stashes
           THEN Confirm(mm, "pop-stash", Cmd("stashPop", mm.stashCursor))
           ELSE Ret(mm, <<>>)
      [] key = "a" ->
           IF mm.stashCursor < mm.stashes
           THEN Ret(mm, <<Cmd("stashApply", mm.stashCursor)>>)
           ELSE Ret(mm, <<>>)
      [] key = "d" ->
           IF mm.stashCursor < mm.stashes
           THEN Confirm(mm, "drop-stash", Cmd("stashDrop", mm.stashCursor))
           ELSE Ret(mm, <<>>)
      [] OTHER -> Ret(mm, <<>>)

\* hooks.go 1193-1257
handleTagsKey(mm, key) ==
    IF "tagInput" \in mm.focused
    THEN CASE key = "enter" ->
                IF HasText(mm, "tagInput")
                THEN Ret(Blur(SetValueEmpty(mm, "tagInput"), "tagInput"),
                         <<Cmd("createTag", 0)>>)
                ELSE Ret(mm, <<>>)
           [] key = "esc" ->
                Ret(Blur(SetValueEmpty(mm, "tagInput"), "tagInput"), <<>>)
           [] OTHER -> Ret(TypeKey(mm, "tagInput", key), <<>>)
    ELSE CASE Down(key) ->
                IF mm.tagCursor < mm.tags - 1
                THEN Ret([mm EXCEPT !.tagCursor = @ + 1], <<>>)
                ELSE Ret(mm, <<>>)
           [] Up(key) ->
                IF mm.tagCursor > 0
                THEN Ret([mm EXCEPT !.tagCursor = @ - 1], <<>>)
                ELSE Ret(mm, <<>>)
           [] key = "n" -> Ret(Focus(mm, "tagInput"), <<Cmd("Blink", 0)>>)
           [] key = "d" ->
                IF mm.tagCursor < mm.tags
                THEN Confirm(mm, "delete-tag", Cmd("deleteTag", mm.tagCursor))
                ELSE Ret(mm, <<>>)
           [] key = "p" ->
                IF mm.tagCursor < mm.tags
                THEN Ret(mm, <<Cmd("pushTag", mm.tagCursor)>>)
                ELSE Ret(mm, <<>>)
           [] key = "P" -> Ret(mm, <<Cmd("pushAllTags", 0)>>)
           [] OTHER -> Ret(mm, <<>>)

\* hooks.go 1259-1295
handleHooksKey(mm, key) ==
    CASE Down(key) ->
           IF mm.hookCursor < 2
           THEN Ret([mm EXCEPT !.hookCursor = @ + 1], <<>>)
           ELSE Ret(mm, <<>>)
      [] Up(key) ->
           IF mm.hookCursor > 0
           THEN Ret([mm EXCEPT !.hookCursor = @ - 1], <<>>)
           ELSE Ret(mm, <<>>)
      [] key = "1" -> Ret(mm, <<Cmd("installConventionalCommitsHook", 0)>>)
      [] key = "2" -> Ret(mm, <<Cmd("installNoLargeFilesHook", 0)>>)
      [] key = "3" -> Ret(mm, <<Cmd("installDetectSecretsHook", 0)>>)
      [] key = "r" -> Ret(mm, <<Cmd("removeSelectedHook", mm.hookCursor)>>)
      [] key = "enter" ->
           CASE mm.hookCursor = 0 ->
                  Ret(mm, <<Cmd("installConventionalCommitsHook", 0)>>)
             [] mm.hookCursor = 1 ->
                  Ret(mm, <<Cmd("installNoLargeFilesHook", 0)>>)
             [] mm.hookCursor = 2 ->
                  Ret(mm, <<Cmd("installDetectSecretsHook", 0)>>)
             [] OTHER -> Ret(mm, <<>>)
      [] OTHER -> Ret(mm, <<>>)

\* hooks.go 1297-1376
handleLogKey(mm, key) ==
    CASE mm.logDetail ->
           IF key = "esc" THEN Ret([mm EXCEPT !.logDetail = FALSE], <<>>)
           ELSE Ret(mm, <<>>)
      [] "logSearchInput" \in mm.focused ->
           CASE key = "enter" ->
                  Ret(Blur(mm, "logSearchInput"), <<Cmd("loadLogCommits", 0)>>)
             [] key = "esc" -> Ret(Blur(mm, "logSearchInput"), <<>>)
             [] OTHER -> Ret(TypeKey(mm, "logSearchInput", key), <<>>)
      [] OTHER ->
           CASE Down(key) ->
                  IF mm.logCursor < mm.logCommits - 1
                  THEN Ret([mm EXCEPT !.logCursor = @ + 1], <<>>)
                  ELSE Ret(mm, <<>>)
             [] Up(key) ->
                  IF mm.logCursor > 0
                  THEN Ret([mm EXCEPT !.logCursor = @ - 1], <<>>)
                  ELSE Ret(mm, <<>>)
             [] key = "enter" ->
                  IF mm.logCursor < mm.logCommits
                  THEN Ret(mm, <<Cmd("loadLogDetail", mm.logCursor)>>)
                  ELSE Ret(mm, <<>>)
             [] key = "/" ->
                  Ret(Focus(mm, "logSearchInput"), <<Cmd("Blink", 0)>>)
             [] key = "c" ->
                  IF mm.logCursor < mm.logCommits
                  THEN Ret(mm, <<Cmd("cherryPickCommit", mm.logCursor)>>)
                  ELSE Ret(mm, <<>>)
             [] key = "R" ->
                  IF mm.logCursor < mm.logCommits
                  THEN Confirm(mm, "revert",
                               Cmd("revertCommit", mm.logCursor))
                  ELSE Ret(mm, <<>>)
             [] OTHER -> Ret(mm, <<>>)

\* hooks.go 1378-1408
handleCleanKey(mm, key) ==
    CASE key \in {"d", "enter"} ->
           IF mm.cleanFiles > 0
           THEN Confirm(mm, "clean", Cmd("executeClean", 0))
           ELSE Ret(mm, <<>>)
      [] key = "r" -> Ret(mm, <<Cmd("loadCleanFiles", 0)>>)
      [] OTHER -> Ret(mm, <<>>)

\* hooks.go 1410-1433
handleCloneKey(mm, key) ==
    IF "cloneInput" \in mm.focused
    THEN CASE key = "enter" ->
                IF HasText(mm, "cloneInput")
                THEN Ret([Blur(SetValueEmpty(mm, "cloneInput"), "cloneInput")
                             EXCEPT !.toolMode = "menu"],
                         <<Cmd("cloneRepo", 0)>>)
                ELSE Ret(mm, <<>>)
           [] key = "esc" ->
                Ret([Blur(SetValueEmpty(mm, "cloneInput"), "cloneInput")
                        EXCEPT !.toolMode = "menu"], <<>>)
           [] OTHER -> Ret(TypeKey(mm, "cloneInput", key), <<>>)
    ELSE Ret(mm, <<>>)

\* hooks.go 1435-1458
handleInitKey(mm, key) ==
    IF "initInput" \in mm.focused
    THEN CASE key = "enter" ->
                IF HasText(mm, "initInput")
                THEN Ret([Blur(SetValueEmpty(mm, "initInput"), "initInput")
                             EXCEPT !.toolMode = "menu"],
                         <<Cmd("initRepo", 0)>>)
                ELSE Ret(mm, <<>>)
           [] key = "esc" ->
                Ret([Blur(SetValueEmpty(mm, "initInput"), "initInput")
                        EXCEPT !.toolMode = "menu"], <<>>)
           [] OTHER -> Ret(TypeKey(mm, "initInput", key), <<>>)
    ELSE Ret(mm, <<>>)

\* hooks.go 822-878
handleToolsKey(mm, key) ==
    IF mm.toolMode = "rebase" /\ "rebaseInput" \in mm.focused
    THEN CASE key = "enter" ->
                Ret(Blur(mm, "rebaseInput"),
                    <<Cmd("loadRebaseCommits",
                          IF IsCount(mm, "rebaseInput") THEN 1 ELSE 0)>>)
           [] key = "esc" ->
                Ret([Blur(mm, "rebaseInput") EXCEPT !.toolMode = "menu"],
                    <<>>)
           [] OTHER -> Ret(TypeKey(mm, "rebaseInput", key), <<>>)
    ELSE IF key = "esc"
    THEN Ret([mm EXCEPT !.toolMode = "menu"], <<>>)
    ELSE CASE mm.toolMode = "menu"    -> handleToolsMenuKey(mm, key)
           [] mm.toolMode = "undo"    -> handleUndoKey(mm, key)
           [] mm.toolMode = "rebase"  -> handleRebaseKey(mm, key)
           [] mm.toolMode = "history" -> handleHistoryKey(mm, key)
           [] mm.toolMode = "remote"  -> handleRemoteKey(mm, key)
           [] mm.toolMode = "stash"   -> handleStashKey(mm, key)
           [] mm.toolMode = "tags"    -> handleTagsKey(mm, key)
           [] mm.toolMode = "hooks"   -> handleHooksKey(mm, key)
           [] mm.toolMode = "log"     -> handleLogKey(mm, key)
           [] mm.toolMode = "clone"   -> handleCloneKey(mm, key)
           [] mm.toolMode = "init"    -> handleInitKey(mm, key)
           [] mm.toolMode = "clean"   -> handleCleanKey(mm, key)
           [] OTHER -> Ret(mm, <<>>)

\* tea.Quit
Quit == Cmd("Quit", 0)

\* hooks.go 462-500
handleKeyPress(mm, key) ==
    CASE key \in {"ctrl+c", "q"} -> Ret(mm, <<Quit>>)
      [] key = "1" ->
           Ret([mm EXCEPT !.tab = "workspace", !.viewMode = "files",
                          !.commitSummary = FALSE],
               <<Cmd("loadGitChanges", 0), Cmd("loadGitStatus", 0)>>)
      [] key = "2" ->
           Ret(Focus([mm EXCEPT !.tab = "commit"], "commitInput"),
               <<Cmd("loadGitStatus", 0),
                 Cmd("generateCommitSuggestions", 0)>>)
      [] key = "3" ->
           Ret([mm EXCEPT !.tab = "branches"], <<Cmd("loadBranches", 0)>>)
      [] key = "4" ->
           Ret([mm EXCEPT !.tab = "tools", !.toolMode = "menu"], <<>>)
      [] OTHER ->
           CASE mm.tab = "workspace" -> handleWorkspaceKey(mm, key)
             [] mm.tab = "commit"    -> handleCommitKey(mm, key)
             [] mm.tab = "branches"  -> handleBranchesKey(mm, key)
             [] mm.tab = "tools"     -> handleToolsKey(mm, key)
             [] OTHER -> Ret(mm, <<>>)

\* A tea.Msg: its Go type, the length of the list it carries (0 when it
\* carries none) and, for branchesMsg, the IsCurrent flag of each branch.
Msg(type, n, list) == [type |-> type, n |-> n, list |-> list]

StatusMsg == Msg("statusMsg", 0, <<>>)

\* func() tea.Msg { return statusMsg{...} }
Status == Cmd("statusMsg", 0)

\* What one run of a command gives back to the runtime: a message for
\* Update, or (tea.Batch(...)()) a BatchMsg whose commands the runtime
\* starts without calling Update.
Reply(msg) == [msg |-> msg, spawn |-> <<>>]

Batch(cmds) == [msg |-> Msg("BatchMsg", 0, <<>>), spawn |-> cmds]

Lists(type) == {Reply(Msg(type, n, <<>>)) : n \in 0..MaxLen}

\* git.go GetBranches: local branches, at most one of them current,
\* followed by the remote ones.
BranchLists ==
    {l \in UNION {[1..n -> BOOLEAN] : n \in 0..MaxLen} :
        Cardinality({i \in DOMAIN l : l[i]}) <= 1}

Refresh(loads) == {Reply(StatusMsg), Batch(loads \o <<Status>>)}

LoadChanges == <<Cmd("loadGitChanges", 0), Cmd("loadGitStatus", 0)>>

\* helpers.go 19-827: the messages each command closure can return.
Outcomes(c) ==
    CASE c.name = "loadGitChanges" -> Lists("gitChangesMsg")
      [] c.name = "loadBranches" ->
           {Reply(Msg("branchesMsg", Len(l), l)) : l \in BranchLists}
      [] c.name = "loadCommitHistory" -> Lists("commitsMsg")
      [] c.name = "loadConflicts" -> Lists("conflictsMsg")
      [] c.name = "loadRebaseCommits" ->
           IF c.arg = 1 THEN Lists("rebaseCommitsMsg")
           ELSE {Reply(StatusMsg)}
      [] c.name = "generateCommitSuggestions" ->
           Lists("commitSuggestionsMsg")
      [] c.name = "loadStashList" -> Lists("stashListMsg")
      [] c.name = "loadTags" -> Lists("tagListMsg")
      [] c.name = "loadLogCommits" -> Lists("logCommitsMsg")
      [] c.name = "loadCleanFiles" ->
           Lists("cleanFilesMsg") \cup {Reply(StatusMsg)}
      [] c.name = "compareBranch" -> {Reply(Msg("comparisonMsg", 0, <<>>))}
      [] c.name = "loadLogDetail" ->
           {Batch(<<Cmd("logDetailMsg", 0), Cmd("logDiffMsg", 0)>>)}
      [] c.name = "logDetailMsg" -> {Reply(Msg("logDetailMsg", 0, <<>>))}
      [] c.name = "commitWithMessage" ->
           {Reply(StatusMsg), Reply(Msg("commitSuccessMsg", 0, <<>>))}
      [] c.name = "cloneRepo" ->
           {Reply(Msg("cloneResultMsg", e, <<>>)) : e \in {0, 1}}
      [] c.name = "initRepo" ->
           {Reply(StatusMsg), Reply(Msg("repoSwitchMsg", 0, <<>>))}
      [] c.name = "repoSwitchMsg" -> {Reply(Msg("repoSwitchMsg", 0, <<>>))}
      [] c.name \in {"toggleStaging", "gitAddAll", "gitReset",
                     "discardChanges", "stashApply", "executeClean"} ->
           Refresh(LoadChanges)
      [] c.name \in {"gitResetLastCommit", "cherryPickCommit",
                     "revertCommit"} ->
           Refresh(LoadChanges \o <<Cmd("loadRecentCommits", 0)>>)
      [] c.name \in {"switchBranch", "createBranch"} ->
           Refresh(<<Cmd("loadBranches", 0), Cmd("loadGitStatus", 0)>>)
      [] c.name = "deleteBranch" -> Refresh(<<Cmd("loadBranches", 0)>>)
      [] c.name = "pushChanges" ->
           {Reply(StatusMsg), Reply(Msg("pushOutputMsg", 0, <<>>))}
      [] c.name = "pullChanges" ->
           Refresh(LoadChanges \o <<Cmd("loadBranches", 0)>>)
      [] c.name = "fetchChanges" -> Refresh(<<Cmd("loadGitStatus", 0)>>)
      [] c.name \in {"undoToCommit", "executeRebase"} ->
           Refresh(LoadChanges \o <<Cmd("loadCommitHistory", 0)>>)
      [] c.name \in {"stashPush", "stashPop"} ->
           Refresh(<<Cmd("loadStashList", 0)>> \o LoadChanges)
      [] c.name = "stashDrop" -> Refresh(<<Cmd("loadStashList", 0)>>)
      [] c.name \in {"createTag", "deleteTag"} ->
           Refresh(<<Cmd("loadTags", 0)>>)
      [] OTHER -> {Reply(StatusMsg)}

\* Commands whose messages leave every field of m kept here as it is
\* (statusMsg, gitStatusMsg, recentCommitsMsg, diffMsg, stashDiffMsg,
\* logDiffMsg, blameMsg, hookStatusMsg, preCommitHookMsg, the cursor blink)
\* and that start no further command: their delivery is a stuttering step.
Inert ==
    {"statusMsg", "loadGitStatus", "loadRecentCommits", "loadFileDiff",
     "loadStashDiff", "loadBlame", "Blink", "logDiffMsg", "pushTag",
     "pushAllTags", "installConventionalCommitsHook",
     "installNoLargeFilesHook", "installDetectSecretsHook",
     "removeSelectedHook", "Quit"}

\* The commands of a batch the runtime has to bring back a message from.
InFlight(batch) ==
    {batch[i] : i \in {j \in DOMAIN batch : batch[j].name \notin Inert}}

\* hooks.go 264-460, the cases other than tea.KeyMsg.
Update(mm, msg) ==
    CASE msg.type = "gitChangesMsg" ->
           LET fc == Clamp(mm.fileCursor, msg.n)
           IN  Ret([mm EXCEPT !.changes = msg.n, !.fileCursor = fc],
                   <<Cmd("generateCommitSuggestions", 0)>> \o
                   (IF msg.n > 0 /\ fc < msg.n
                    THEN <<Cmd("loadFileDiff", fc)>> ELSE <<>>))
      [] msg.type = "branchesMsg" ->
           Ret([mm EXCEPT !.branches = msg.list,
                          !.branchCursor = Clamp(@, msg.n)], <<>>)
      [] msg.type = "commitsMsg" -> Ret([mm EXCEPT !.commits = msg.n], <<>>)
      [] msg.type = "conflictsMsg" ->
           Ret([mm EXCEPT !.conflicts = msg.n], <<>>)
      [] msg.type = "comparisonMsg" ->
           Ret([mm EXCEPT !.branchComparison = TRUE], <<>>)
      [] msg.type = "rebaseCommitsMsg" ->
           Ret([mm EXCEPT !.rebaseCommits = msg.n], <<>>)
      [] msg.type = "commitSuccessMsg" ->
           Ret([mm EXCEPT !.commitSummary = TRUE], LoadChanges)
      [] msg.type = "commitSuggestionsMsg" ->
           Ret([mm EXCEPT !.suggestions = msg.n], <<>>)
      [] msg.type = "stashListMsg" ->
           Ret([mm EXCEPT !.stashes = msg.n,
                          !.stashCursor = Clamp(@, msg.n)], <<>>)
      [] msg.type = "tagListMsg" ->
           Ret([mm EXCEPT !.tags = msg.n, !.tagCursor = Clamp(@, msg.n)],
               <<>>)
      [] msg.type = "logCommitsMsg" ->
           Ret([mm EXCEPT !.logCommits = msg.n,
                          !.logCursor = Clamp(@, msg.n)], <<>>)
      [] msg.type = "logDetailMsg" ->
           Ret([mm EXCEPT !.logDetail = TRUE], <<>>)
      [] msg.type = "cloneResultMsg" ->
           IF msg.n = 0 THEN Ret(mm, <<Status>>)
           ELSE Ret(mm, <<Cmd("repoSwitchMsg", 0)>>)
      [] msg.type = "cleanFilesMsg" ->
           Ret([mm EXCEPT !.cleanFiles = msg.n], <<>>)
      [] msg.type = "repoSwitchMsg" ->
           Ret([mm EXCEPT !.tab = "workspace", !.toolMode = "menu",
                          !.fileCursor = 0, !.branchCursor = 0,
                          !.commitSummary = FALSE],
               LoadChanges \o <<Cmd("loadRecentCommits", 0), Status>>)
      [] OTHER -> Ret(mm, <<>>)

\* Tools-menu positions a session can start from: the cursor stays where
\* the keys j and k left it (hooks.go 885-894) and no message moves it.
ToolCursorStarts == {0, 6}

\* main.go initialModel and hooks.go 256-262 (Init).
UIInit ==
    /\ m \in {[initialModel EXCEPT !.toolCursor = t] : t \in ToolCursorStarts}
    /\ cmd = <<Cmd("loadGitChanges", 0), Cmd("loadGitStatus", 0),
               Cmd("loadRecentCommits", 0)>>
    /\ pending = InFlight(cmd)
    /\ keys = 0
    /\ msgs = 0
    /\ running = TRUE

\* The runtime hands Update a tea.KeyMsg.
KeyPress ==
    /\ UNCHANGED <<exVars, sideVars>>
    /\ running
    /\ keys < MaxKeys
    /\ \E key \in Keys :
          LET r == handleKeyPress(m, key)
          IN  /\ m' = r.m
              /\ cmd' = r.cmd
              /\ pending' = pending \cup InFlight(r.cmd)
              /\ running' = (r.cmd # <<Quit>>)
    /\ keys' = keys + 1
    /\ UNCHANGED msgs

\* A command in flight ends and the runtime hands its message to Update.
Deliver ==
    /\ UNCHANGED <<exVars, sideVars>>
    /\ running
    /\ msgs < MaxMsgs
    /\ \E c \in pending :
          \E o \in Outcomes(c) :
             LET r == IF o.msg.type = "BatchMsg" THEN Ret(m, <<>>)
                      ELSE Update(m, o.msg)
             IN  /\ m' = r.m
                 /\ cmd' = r.cmd
                 /\ pending' = (pending \ {c}) \cup InFlight(o.spawn)
                                    \cup InFlight(r.cmd)
    /\ msgs' = msgs + 1
    /\ UNCHANGED <<keys, running>>

Next ==
    \/ KeyPress
    \/ Deliver

-----------------------------------------------------------------------------
(* The parsers of the tool's output (git.go).  A text is a sequence of      *)
(* tokens: single characters, and whole words (file names, branch names,   *)
(* numbers) where no parser looks inside them.                             *)

MaxLines == 2   \* lines of one status output

FileNames == <<"file.go", "new.txt", "x.go">>

\* The words of `git blame --porcelain` that are longer than a character,
\* with their length in bytes; the two hashes stand for 40 hex digits.
BlameWords ==
    [author |-> 6, summary |-> 7, code |-> 4]
      @@ ("author-time" :> 11) @@ ("1700000000" :> 10)
      @@ ("a1b2c3d..." :> 40) @@ ("e5f6a7b..." :> 40)
      @@ ("Al" :> 2) @@ ("Bartholomew Featherstonehaugh-Smythe" :> 36)
      @@ ("fix the cursor when the list gets shorter" :> 41)

\* len(text) in bytes
RECURSIVE ByteLen(_)
ByteLen(text) ==
    IF text = <<>> THEN 0
    ELSE (IF \E i \in DOMAIN FileNames : FileNames[i] = Head(text)
          THEN 7
          ELSE IF Head(text) \in DOMAIN BlameWords
          THEN BlameWords[Head(text)]
          ELSE 1) + ByteLen(Tail(text))

\* unicode.IsSpace on the characters that occur
IsSpace(t) == t \in {" ", "\n", "\t"}

\* strings.TrimLeftFunc(text, unicode.IsSpace), the first half of TrimSpace
RECURSIVE TrimLeft(_)
TrimLeft(text) ==
    IF text # <<>> /\ IsSpace(Head(text)) THEN TrimLeft(Tail(text)) ELSE text

\* strings.TrimSpace
TrimSpace(text) ==
    LET RECURSIVE TrimRight(_)
        TrimRight(t) ==
            IF t # <<>> /\ IsSpace(t[Len(t)])
            THEN TrimRight(SubSeq(t, 1, Len(t) - 1))
            ELSE t
    IN  TrimRight(TrimLeft(text))

\* strings.Split(text, sep) for a one-character separator: the pieces
\* between the separators, empty ones included.
Split(text, sep) ==
    LET RECURSIVE SplitFrom(_, _)
        SplitFrom(t, piece) ==
            IF t = <<>> THEN <<piece>>
            ELSE IF Head(t) = sep
                 THEN <<piece>> \o SplitFrom(Tail(t), <<>>)
                 ELSE SplitFrom(Tail(t), Append(piece, Head(t)))
    IN  SplitFrom(text, <<>>)

\* git.go 171-172, zero value of the counters: what GetStatus holds before
\* it reads the porcelain output (Branch, Ahead and Behind left aside).
ZeroStatus == [Clean |-> FALSE, StagedFiles |-> 0, UnstagedFiles |-> 0]

\* git.go 170-205
GetStatus(out, err) ==
    LET \* git.go 187-201: one line's share of the two counters
        CountLine(st, line) ==
            IF TrimSpace(line) = <<>> \/ ByteLen(line) < 2 THEN st
            ELSE [st EXCEPT
                    !.StagedFiles =
                        IF line[1] # " " /\ line[1] # "?" THEN @ + 1 ELSE @,
                    !.UnstagedFiles = IF line[2] # " " THEN @ + 1 ELSE @]
        RECURSIVE CountLines(_, _)
        CountLines(st, lines) ==
            IF lines = <<>> THEN st
            ELSE CountLines(CountLine(st, Head(lines)), Tail(lines))
        statusText == TrimSpace(out)
    IN  IF err THEN ZeroStatus
        ELSE IF statusText = <<>>
        THEN [ZeroStatus EXCEPT !.Clean = TRUE]
        ELSE CountLines(ZeroStatus, Split(statusText, "\n"))

\* git.go 207-233
GetChanges(out, err) ==
    LET RECURSIVE ChangesOf(_)
        ChangesOf(lines) ==
            IF lines = <<>> THEN <<>>
            ELSE LET line == Head(lines)
                 IN  IF TrimSpace(line) = <<>> \/ ByteLen(line) < 3
                     THEN ChangesOf(Tail(lines))
                     ELSE <<[Status |-> SubSeq(line, 1, 2),
                             File |-> TrimSpace(SubSeq(line, 4, Len(line)))]>>
                          \o ChangesOf(Tail(lines))
    IN  IF err THEN <<>> ELSE ChangesOf(Split(out, "\n"))

\* The XY codes of `git status --porcelain`: index and working-tree
\* character, not both blank, "?" only as "??".
StatusCodes ==
    {<<x, y>> : x \in {"M", "A", "D", "R", "U"}, y \in {" ", "M", "D", "U"}}
      \cup {<<" ", y>> : y \in {"M", "D", "U"}}
      \cup {<<"?", "?">>}

\* An output of the tool: the command (kind), what it printed (text; remote
\* is what `git branch -r` printed beside `git branch -vv`), whether it
\* failed, and the lines the text was made from (lines).
Output(kind, text, remote, err, lines) ==
    [kind |-> kind, text |-> text, remote |-> remote, err |-> err,
     lines |-> lines]

\* What `git status --porcelain` can print in up to MaxLines lines (XY, a
\* blank, the path, a newline), and its failure.
PorcelainOutputs ==
    LET RECURSIVE PorcelainTexts(_)
        PorcelainTexts(n) ==
            IF n = 0 THEN {<<>>}
            ELSE {t \o c \o <<" ", FileNames[n], "\n">> :
                    t \in PorcelainTexts(n - 1), c \in StatusCodes}
    IN  {Output("porcelain", t, <<>>, FALSE, <<>>) :
            t \in UNION {PorcelainTexts(n) : n \in 0..MaxLines}}
          \cup {Output("porcelain", <<>>, <<>>, TRUE, <<>>)}

\* strings.Index, counted from 1; 0 where Go gives -1
Index(text, t) ==
    IF \E i \in DOMAIN text : text[i] = t
    THEN CHOOSE i \in DOMAIN text :
            text[i] = t /\ \A j \in 1..(i - 1) : text[j] # t
    ELSE 0

\* strings.Contains
Contains(text, t) == Index(text, t) # 0

\* line[idx+1 : idx+endIdx] of git.go 144-146 and 266-268: what stands
\* between the first "[" and the first "]" after it; found tells whether
\* both are there.
Bracket(line) ==
    LET idx    == Index(line, "[")
        endIdx == IF idx = 0 THEN 0
                  ELSE Index(SubSeq(line, idx, Len(line)), "]")
    IN  [found |-> idx # 0 /\ endIdx # 0,
         info  |-> IF idx # 0 /\ endIdx # 0
                   THEN SubSeq(line, idx + 1, idx + endIdx - 2)
                   ELSE <<>>]

\* the decimal digits, each at its value plus one
DecDigits == <<"0", "1", "2", "3", "4", "5", "6", "7", "8", "9">>

\* fmt.Sscanf(input, format, ...): the numbers stored, in order, until the
\* input stops matching the format.  A blank of the format matches any
\* number of blanks of the input, every other text must match itself; the
\* verb %d skips leading blanks and reads the digits as a decimal number.
RECURSIVE Sscanf(_, _, _)
Sscanf(input, format, stored) ==
    LET RECURSIVE ScanDigits(_, _, _)
        ScanDigits(t, n, val) ==
            IF t # <<>> /\ Index(DecDigits, Head(t)) # 0
            THEN ScanDigits(Tail(t), n + 1,
                            val * 10 + Index(DecDigits, Head(t)) - 1)
            ELSE [ok |-> n > 0, val |-> val, rest |-> t]
    IN  IF format = <<>> THEN stored
        ELSE IF Head(format) = "%d"
        THEN LET r == ScanDigits(TrimLeft(input), 0, 0)
             IN  IF r.ok
                 THEN Sscanf(r.rest, Tail(format), Append(stored, r.val))
                 ELSE stored
        ELSE IF Head(format) = " "
        THEN Sscanf(TrimLeft(input), Tail(format), stored)
        ELSE IF input # <<>> /\ Head(input) = Head(format)
        THEN Sscanf(Tail(input), Tail(format), stored)
        ELSE stored

\* the i-th argument of a Sscanf call: the number stored, or what it held
Stored(old, stored, i) == IF Len(stored) >= i THEN stored[i] ELSE old

\* git.go 152-158 with the whole annotation scanned instead of its parts
BehindOfParts_unsplit(parts, behind) ==
    IF parts = <<>> THEN behind
    ELSE Stored(behind, Sscanf(Head(parts), <<"behind", " ", "%d">>, <<>>), 1)

\* git.go 154-158: the loop over the parts of "ahead N, behind M"
RECURSIVE BehindOfParts(_, _)
BehindOfParts(parts, behind) ==
    IF parts = <<>> THEN behind
    ELSE BehindOfParts(Tail(parts),
            IF Head(parts) # <<>> /\ Head(Head(parts)) = "behind"
            THEN Stored(behind,
                        Sscanf(Head(parts), <<"behind", " ", "%d">>, <<>>), 1)
            ELSE behind)

\* git.go 131-168
GetAheadBehindCount(out, err) ==
    IF err THEN [ahead |-> 0, behind |-> 0]
    ELSE LET firstLine == Split(out, "\n")[1]
             b         == Bracket(firstLine)
             trackInfo == b.info
             \* strings.Split(trackInfo, ", ")
             RECURSIVE SplitComma(_, _)
             SplitComma(t, piece) ==
                 IF t = <<>> THEN <<piece>>
                 ELSE IF Len(t) >= 2 /\ t[1] = "," /\ t[2] = " "
                      THEN <<piece>> \o SplitComma(SubSeq(t, 3, Len(t)), <<>>)
                      ELSE SplitComma(Tail(t), Append(piece, Head(t)))
         IN  IF ~b.found THEN [ahead |-> 0, behind |-> 0]
             ELSE [ahead |->
                     IF Contains(trackInfo, "ahead")
                     THEN Stored(0, Sscanf(trackInfo,
                                           <<"ahead", " ", "%d">>, <<>>), 1)
                     ELSE 0,
                   behind |->
                     IF ~Contains(trackInfo, "behind") THEN 0
                     ELSE IF Contains(trackInfo, "ahead")
                     THEN BehindOfParts(SplitComma(trackInfo, <<>>), 0)
                     ELSE Stored(0, Sscanf(trackInfo,
                                           <<"behind", " ", "%d">>, <<>>), 1)]

\* strings.TrimPrefix with the line as it is
TrimPrefix_keep(line, prefix) == line

\* strings.TrimPrefix
TrimPrefix(line, prefix) ==
    IF Len(line) >= Len(prefix) /\ SubSeq(line, 1, Len(prefix)) = prefix
    THEN SubSeq(line, Len(prefix) + 1, Len(line))
    ELSE line

\* strings.Fields
Fields(line) == SelectSeq(line, LAMBDA t : ~IsSpace(t))

\* git.go 254-288: one line of `git branch -vv`
ParseBranch(line0) ==
    LET line  == TrimPrefix(TrimPrefix(line0, <<"*", " ">>), <<" ", " ">>)
        parts == Fields(line)
        b     == Bracket(line)
        colonIdx == Index(b.info, ":")
        status   == SubSeq(b.info, colonIdx + 1, Len(b.info))
        ahead1 == IF Contains(status, "ahead")
                  THEN Stored(0, Sscanf(status,
                                    <<" ", "ahead", " ", "%d">>, <<>>), 1)
                  ELSE 0
        both   == Sscanf(status, <<" ", "ahead", " ", "%d", ",", " ",
                                   "behind", " ", "%d">>, <<>>)
        tracked == b.found /\ colonIdx # 0
    IN  [Name      |-> IF Len(parts) >= 1 THEN <<parts[1]>> ELSE <<>>,
         IsCurrent |-> line0 # <<>> /\ Head(line0) = "*",
         IsRemote  |-> FALSE,
         Upstream  |-> IF ~b.found THEN <<>>
                       ELSE IF colonIdx # 0
                       THEN TrimSpace(SubSeq(b.info, 1, colonIdx - 1))
                       ELSE TrimSpace(b.info),
         Ahead     |-> IF ~tracked THEN 0
                       ELSE IF Contains(status, "behind")
                               /\ Contains(status, "ahead")
                       THEN Stored(ahead1, both, 1)
                       ELSE ahead1,
         Behind    |-> IF ~tracked \/ ~Contains(status, "behind") THEN 0
                       ELSE IF Contains(status, "ahead")
                       THEN Stored(0, both, 2)
                       ELSE Stored(0, Sscanf(status,
                                     <<" ", "behind", " ", "%d">>, <<>>), 1)]

\* git.go 237-292
GetBranches(out, err) ==
    LET RECURSIVE BranchesOf(_)
        BranchesOf(lines) ==
            IF lines = <<>> THEN <<>>
            ELSE IF TrimSpace(Head(lines)) = <<>> THEN BranchesOf(Tail(lines))
            ELSE <<ParseBranch(Head(lines))>> \o BranchesOf(Tail(lines))
    IN  IF err THEN <<>> ELSE BranchesOf(Split(out, "\n"))

\* git.go 294-317
GetRemoteBranches(out, err) ==
    LET RECURSIVE RemotesOf(_)
        RemotesOf(lines) ==
            IF lines = <<>> THEN <<>>
            ELSE LET line == TrimSpace(Head(lines))
                 IN  IF line = <<>> \/ Contains(line, "->")
                     THEN RemotesOf(Tail(lines))
                     ELSE <<[Name |-> line, IsCurrent |-> FALSE,
                             IsRemote |-> TRUE, Upstream |-> <<>>,
                             Ahead |-> 0, Behind |-> 0]>>
                          \o RemotesOf(Tail(lines))
    IN  IF err THEN <<>> ELSE RemotesOf(Split(out, "\n"))

\* helpers.go 35-37
loadBranches(out, remoteOut, err) ==
    GetBranches(out, err) \o GetRemoteBranches(remoteOut, err)

\* git.go 907-954.  panicked: parts[0][:7] was taken of a first field
\* shorter than 7 bytes (slice bounds out of range).
GetBlame(out, err) ==
    LET First7 == ("a1b2c3d..." :> "a1b2c3d") @@ ("e5f6a7b..." :> "e5f6a7b")
                    @@ ("summary" :> "summary") @@ ("author-time" :> "author-")
        Date(ts) == IF ts = <<"1700000000">> THEN <<"2023-11-14">> ELSE <<>>
        Line(st, line) ==
            IF line = <<>> \/ st.panicked THEN st
            ELSE IF ByteLen(line) >= 40 /\ Head(line) # "\t"
            THEN LET parts == Fields(line)
                 IN  IF Len(parts) < 1 THEN st
                     ELSE IF ByteLen(<<parts[1]>>) < 7
                     THEN [st EXCEPT !.panicked = TRUE]
                     ELSE [st EXCEPT !.hash = First7[parts[1]]]
            ELSE IF TrimPrefix(line, <<"author", " ">>) # line
            THEN [st EXCEPT !.author = TrimPrefix(line, <<"author", " ">>)]
            ELSE IF TrimPrefix(line, <<"author-time", " ">>) # line
            THEN LET ts == TrimPrefix(line, <<"author-time", " ">>)
                 IN  IF Date(ts) # <<>> THEN [st EXCEPT !.date = Date(ts)]
                     ELSE st
            ELSE IF Head(line) = "\t"
            THEN [st EXCEPT
                    !.lineNum = @ + 1,
                    !.lines = Append(@, [Hash |-> st.hash,
                                         Author |-> st.author,
                                         Date |-> st.date,
                                         LineNum |-> st.lineNum + 1,
                                         Content |-> Tail(line)])]
            ELSE st
        RECURSIVE Lines(_, _)
        Lines(st, rawLines) ==
            IF rawLines = <<>> THEN st
            ELSE Lines(Line(st, Head(rawLines)), Tail(rawLines))
        st0 == [hash |-> "", author |-> <<>>, date |-> <<>>, lineNum |-> 0,
                lines |-> <<>>, panicked |-> FALSE]
    IN  IF err THEN [panicked |-> FALSE, lines |-> <<>>]
        ELSE LET st == Lines(st0, Split(out, "\n"))
             IN  [panicked |-> st.panicked,
                  lines |-> IF st.panicked THEN <<>> ELSE st.lines]

\* helpers.go 707-712: what the command hands to the runtime
loadBlame(out, err) ==
    LET b == GetBlame(out, err)
    IN  [panicked |-> b.panicked,
         type |-> IF b.panicked THEN "none" ELSE "blameMsg",
         lines |-> b.lines]

MaxBlame == 2   \* source lines of a blamed file

\* What `git blame --porcelain` can print for up to MaxBlame source lines:
\* per line the header "hash orig final", then author, author-time and
\* summary where the commit is shown for the first time, then a tab and
\* the line itself; and its failure.
BlameOutputs ==
    LET Named(word, values) ==
            {<<>>} \cup {<<word, " ", v, "\n">> : v \in values}
        Groups ==
            {<<h, " ", "1", " ", "1", "\n">> \o a \o t \o sm
                 \o <<"\t", "code", "\n">> :
               h \in {"a1b2c3d...", "e5f6a7b..."},
               a \in Named("author",
                           {"Al", "Bartholomew Featherstonehaugh-Smythe"}),
               t \in Named("author-time", {"1700000000"}),
               sm \in Named("summary",
                            {"fix the cursor when the list gets shorter"})}
        RECURSIVE Texts(_)
        Texts(n) ==
            IF n = 0 THEN {<<>>}
            ELSE {t \o g : t \in Texts(n - 1), g \in Groups}
    IN  {Output("blame", t, <<>>, FALSE, <<>>) :
            t \in UNION {Texts(n) : n \in 0..MaxBlame}}
          \cup {Output("blame", <<>>, <<>>, TRUE, <<>>)}

MaxBranches == 2   \* lines of one `git branch -vv` output

BranchNames == <<"main", "feature", "fix">>

\* A count as the tool prints it and the number it stands for; absent is
\* a term the annotation does not have.
Absent == [d |-> <<>>, v |-> 0]

Numerals ==
    {[d |-> <<"2">>, v |-> 2], [d |-> <<"3">>, v |-> 3],
     [d |-> <<"5">>, v |-> 5], [d |-> <<"1", "0">>, v |-> 10]}

\* "ahead N", "behind M" or "ahead N, behind M"
Terms(ahead, behind) ==
    (IF ahead = Absent THEN <<>> ELSE <<"ahead", " ">> \o ahead.d)
      \o (IF ahead # Absent /\ behind # Absent THEN <<",", " ">> ELSE <<>>)
      \o (IF behind = Absent THEN <<>> ELSE <<"behind", " ">> \o behind.d)

\* What one line says: current branch or not, its name, whether it has an
\* upstream, and the two terms of its annotation (none without upstream).
LineSrcs(name, curs) ==
    {l \in [cur : curs, name : {name}, up : BOOLEAN,
            ahead : Numerals \cup {Absent}, behind : Numerals \cup {Absent}] :
        ~l.up => (l.ahead = Absent /\ l.behind = Absent)}

\* first line of `git status -sb`: ## branch...upstream [ahead N, behind M]
HeaderLine(l) ==
    <<"##", " ", "main...origin/main">>
      \o (IF l.ahead = Absent /\ l.behind = Absent THEN <<>>
          ELSE <<" ", "[">> \o Terms(l.ahead, l.behind) \o <<"]">>)
      \o <<"\n">>

\* a line of `git branch -vv`:
\* "* name hash [upstream: ahead N, behind M] subject"
BranchLine(l) ==
    (IF l.cur THEN <<"*", " ">> ELSE <<" ", " ">>)
      \o <<l.name, " ", " ", "abc1234", " ">>
      \o (IF ~l.up THEN <<>>
          ELSE IF l.ahead = Absent /\ l.behind = Absent
          THEN <<"[", "origin/main", "]", " ">>
          ELSE <<"[", "origin/main", ":", " ">>
                 \o Terms(l.ahead, l.behind) \o <<"]", " ">>)
      \o <<"msg", "\n">>

\* what `git branch -r` prints
RemoteTexts ==
    {<<>>,
     <<" ", " ", "origin/HEAD", " ", "->", " ", "origin/main", "\n",
       " ", " ", "origin/main", "\n">>}

\* What `git status -sb` can print in its first line, and its failure.
HeaderOutputs ==
    {Output("header", HeaderLine(l), <<>>, FALSE, <<l>>) :
        l \in {x \in LineSrcs("main", {TRUE}) : x.up}}
      \cup {Output("header", <<>>, <<>>, TRUE, <<>>)}

\* What `git branch -vv` and `git branch -r` can print for up to
\* MaxBranches local branches, and their failure.
BranchOutputs ==
    LET RECURSIVE BranchListings(_)
        BranchListings(n) ==
            IF n = 0 THEN {<<>>}
            ELSE {Append(ls, l) :
                    ls \in BranchListings(n - 1),
                    l \in LineSrcs(BranchNames[n], BOOLEAN)}
        RECURSIVE Render(_)
        Render(lines) ==
            IF lines = <<>> THEN <<>>
            ELSE BranchLine(Head(lines)) \o Render(Tail(lines))
    IN  {Output("branches", Render(ls), r, FALSE, ls) :
            ls \in UNION {BranchListings(n) : n \in 0..MaxBranches},
            r \in RemoteTexts}
          \cup {Output("branches", <<>>, <<>>, TRUE, <<>>)}

NoRaw == Output("none", <<>>, <<>>, FALSE, <<>>)

NoParse ==
    [done |-> {}, status |-> ZeroStatus, changes |-> <<>>,
     counts |-> [ahead |-> 0, behind |-> 0], branches |-> <<>>,
     blame |-> [panicked |-> FALSE, type |-> "none", lines |-> <<>>]]

ParseIdle == raw = NoRaw /\ parsed = NoParse

ParseInit ==
    /\ raw \in PorcelainOutputs \cup HeaderOutputs \cup BranchOutputs
                \cup BlameOutputs
    /\ parsed = NoParse

\* helpers.go 26-31: loadGitStatus runs GetStatus
RunGetStatus ==
    /\ UNCHANGED <<exVars, uiVars, scrollVars, rebaseVars, syncVars, hookVars,
                   toggleVars, diffVars, suggestVars, raw>>
    /\ raw.kind = "porcelain"
    /\ "GetStatus" \notin parsed.done
    /\ parsed' = [parsed EXCEPT !.done = @ \cup {"GetStatus"},
                                !.status = GetStatus(raw.text, raw.err)]

\* helpers.go 19-24: loadGitChanges runs GetChanges
RunGetChanges ==
    /\ UNCHANGED <<exVars, uiVars, scrollVars, rebaseVars, syncVars, hookVars,
                   toggleVars, diffVars, suggestVars, raw>>
    /\ raw.kind = "porcelain"
    /\ "GetChanges" \notin parsed.done
    /\ parsed' = [parsed EXCEPT !.done = @ \cup {"GetChanges"},
                                !.changes = GetChanges(raw.text, raw.err)]

\* git.go 172: GetStatus asks for the counts of the status header
RunGetAheadBehindCount ==
    /\ UNCHANGED <<exVars, uiVars, scrollVars, rebaseVars, syncVars, hookVars,
                   toggleVars, diffVars, suggestVars, raw>>
    /\ raw.kind = "header"
    /\ "GetAheadBehindCount" \notin parsed.done
    /\ parsed' = [parsed EXCEPT
                    !.done = @ \cup {"GetAheadBehindCount"},
                    !.counts = GetAheadBehindCount(raw.text, raw.err)]

\* helpers.go 33-39
RunLoadBranches ==
    /\ UNCHANGED <<exVars, uiVars, scrollVars, rebaseVars, syncVars, hookVars,
                   toggleVars, diffVars, suggestVars, raw>>
    /\ raw.kind = "branches"
    /\ "loadBranches" \notin parsed.done
    /\ parsed' = [parsed EXCEPT
                    !.done = @ \cup {"loadBranches"},
                    !.branches = loadBranches(raw.text, raw.remote, raw.err)]

\* helpers.go 707-712
RunLoadBlame ==
    /\ UNCHANGED <<exVars, uiVars, scrollVars, rebaseVars, syncVars, hookVars,
                   toggleVars, diffVars, suggestVars, raw>>
    /\ raw.kind = "blame"
    /\ "loadBlame" \notin parsed.done
    /\ parsed' = [parsed EXCEPT
                    !.done = @ \cup {"loadBlame"},
                    !.blame = loadBlame(raw.text, raw.err)]

NextParse ==
    \/ RunGetStatus
    \/ RunGetChanges
    \/ RunGetAheadBehindCount
    \/ RunLoadBranches
    \/ RunLoadBlame

-----------------------------------------------------------------------------
(* Rebase mode: the count is entered, the plan is loaded, its entries are  *)
(* given actions, and the confirmed plan is handed to the tool as a todo   *)
(* script.  A commit is named by its age: 1 is the oldest.                 *)

MaxPlan == 3   \* commits in the history

MaxRace == 1   \* keys pressed while a dispatched executeRebase has not run

\* strconv.Atoi on what the count field can hold
Atoi(text) ==
    LET r == Sscanf(text, <<"%d">>, <<>>)
    IN  IF text # <<>> /\ Len(r) = 1
           /\ \A i \in DOMAIN text : Index(DecDigits, text[i]) # 0
        THEN [err |-> FALSE, n |-> r[1]]
        ELSE [err |-> TRUE, n |-> 0]

\* what the user can have typed into the count field
CountInputs ==
    {<<DecDigits[n + 1]>> : n \in 0..(MaxPlan + 1)}
      \cup {<<>>, <<"x">>, <<" ", "2", " ">>, <<"5", "1">>}

\* git.go 329-358: the newest count commits, newest first
GetCommitLog(count, err) ==
    IF err THEN <<>>
    ELSE [i \in 1..(IF count < MaxPlan THEN count ELSE MaxPlan) |->
            [Hash |-> MaxPlan + 1 - i]]

\* helpers.go 74-93 with the log read before the count is looked at
loadRebaseCommits_logFirst(value, logErr) ==
    LET count   == Atoi(TrimSpace(value))
        commits == GetCommitLog(count.n, logErr)
    IN  IF count.err \/ count.n < 1 \/ count.n > 50
        THEN [ok |-> FALSE, plan |-> <<>>, spawned |-> TRUE]
        ELSE [ok |-> TRUE, spawned |-> TRUE,
              plan |-> [i \in DOMAIN commits |->
                          [Hash |-> commits[i].Hash, Action |-> "pick"]]]

\* helpers.go 74-93: the plan, or none when the count is refused; spawned
\* tells whether `git log` was run
loadRebaseCommits(value, logErr) ==
    LET count   == Atoi(TrimSpace(value))
        commits == GetCommitLog(count.n, logErr)
    IN  IF count.err \/ count.n < 1 \/ count.n > 50
        THEN [ok |-> FALSE, plan |-> <<>>, spawned |-> FALSE]
        ELSE [ok |-> TRUE, spawned |-> TRUE,
              plan |-> [i \in DOMAIN commits |->
                          [Hash |-> commits[i].Hash, Action |-> "pick"]]]

\* git.go 831-846 with the lines in the order of the plan
ExecuteRebase_planOrder(commits) ==
    [i \in DOMAIN commits |->
        [action |-> IF commits[i].Action = "" THEN "pick"
                    ELSE commits[i].Action,
         hash   |-> commits[i].Hash]]

\* git.go 831-846: the lines of the todo file, one per commit, written
\* from the last entry of the plan to the first
ExecuteRebase(commits) ==
    [i \in DOMAIN commits |->
        LET commit == commits[Len(commits) + 1 - i]
        IN  [action |-> IF commit.Action = "" THEN "pick" ELSE commit.Action,
             hash   |-> commit.Hash]]

RebaseActions ==
    [p |-> "pick", s |-> "squash", r |-> "reword", d |-> "drop",
     f |-> "fixup"]

RebaseKeys == DOMAIN RebaseActions \cup {"j", "k", "enter", "x"}

\* hooks.go 1040-1084 on the plan itself.  An action letter writes to
\* m.rebaseCommits[m.rebaseCursor]; the program panics when the cursor is
\* past the end of the plan.
handleRebaseKey_plan(r, key) ==
    IF Len(r.rebaseCommits) = 0 THEN r
    ELSE CASE key = "j" ->
                IF r.rebaseCursor < Len(r.rebaseCommits) - 1
                THEN [r EXCEPT !.rebaseCursor = @ + 1] ELSE r
           [] key = "k" ->
                IF r.rebaseCursor > 0
                THEN [r EXCEPT !.rebaseCursor = @ - 1] ELSE r
           [] key \in DOMAIN RebaseActions ->
                IF r.rebaseCursor >= Len(r.rebaseCommits)
                THEN [r EXCEPT !.panicked = TRUE]
                ELSE [r EXCEPT !.rebaseCommits[r.rebaseCursor + 1].Action =
                                  RebaseActions[key]]
           [] key = "enter" ->
                IF r.confirmAction = ""
                THEN [r EXCEPT !.confirmAction = "rebase",
                               !.statusMessage = "Press enter again"]
                ELSE IF r.confirmAction = "rebase"
                THEN [r EXCEPT !.confirmAction = "", !.executing = TRUE,
                               !.confirmed = r.rebaseCommits]
                ELSE r
           [] OTHER -> [r EXCEPT !.confirmAction = ""]

\* The tools menu with the confirmation token t; no plan, nothing in flight.
RebaseStart(t) ==
    [toolMode |-> "menu", focused |-> FALSE, rebaseCommits |-> <<>>,
     rebaseCursor |-> 0, confirmAction |-> t, loading |-> <<>>,
     executing |-> FALSE, confirmed |-> <<>>, raced |-> 0, todo |-> <<>>,
     statusMessage |-> "", panicked |-> FALSE]

RebaseIdle == rb = RebaseStart("")

\* hooks.go 917-923: "p" in the menu may have left the token "push"
RebaseInit == rb \in {RebaseStart(t) : t \in {"", "push"}}

\* hooks.go 910-913, 974-977: the menu opens rebase mode on the count field
SelectRebase ==
    /\ UNCHANGED <<exVars, uiVars, scrollVars, parseVars, syncVars, hookVars,
                   toggleVars, diffVars, suggestVars>>
    /\ ~rb.panicked
    /\ rb.toolMode = "menu"
    /\ rb' = [rb EXCEPT !.toolMode = "rebase", !.focused = TRUE]

\* hooks.go 824-828: enter in the count field dispatches loadRebaseCommits.
\* One command is in flight at a time.
SubmitCount ==
    /\ UNCHANGED <<exVars, uiVars, scrollVars, parseVars, syncVars, hookVars,
                   toggleVars, diffVars, suggestVars>>
    /\ ~rb.panicked
    /\ rb.toolMode = "rebase" /\ rb.focused
    /\ rb.loading = <<>> /\ ~rb.executing
    /\ \E value \in CountInputs :
          rb' = [rb EXCEPT !.focused = FALSE, !.loading = <<value>>]

\* hooks.go 829-832, 839-846: esc leaves rebase mode for the menu
EscRebase ==
    /\ UNCHANGED <<exVars, uiVars, scrollVars, parseVars, syncVars, hookVars,
                   toggleVars, diffVars, suggestVars>>
    /\ ~rb.panicked
    /\ rb.toolMode = "rebase"
    /\ rb' = [rb EXCEPT !.toolMode = "menu", !.focused = FALSE]

\* helpers.go 74-93 and hooks.go 327-329: the command runs and its
\* rebaseCommitsMsg replaces the plan; a refused count only sets the status.
DeliverPlan ==
    /\ UNCHANGED <<exVars, uiVars, scrollVars, parseVars, syncVars, hookVars,
                   toggleVars, diffVars, suggestVars>>
    /\ ~rb.panicked
    /\ rb.loading # <<>>
    /\ \E logErr \in BOOLEAN :
          LET res == loadRebaseCommits(rb.loading[1], logErr)
          IN  rb' = [rb EXCEPT !.loading = <<>>,
                               !.rebaseCommits =
                                   IF res.ok THEN res.plan ELSE @,
                               !.statusMessage =
                                   IF res.ok THEN @
                                   ELSE "Invalid count (1-50)"]

\* hooks.go 853-854, 1040-1084: a key in rebase mode outside the count
\* field.  Keys also arrive while a dispatched executeRebase has not yet
\* read the plan: the closure holds the slice m.rebaseCommits, whose
\* entries the action letters overwrite in place.  One executeRebase is in
\* flight at a time, and at most MaxRace keys arrive before it runs.
RebaseKey ==
    /\ UNCHANGED <<exVars, uiVars, scrollVars, parseVars, syncVars, hookVars,
                   toggleVars, diffVars, suggestVars>>
    /\ ~rb.panicked
    /\ rb.toolMode = "rebase" /\ ~rb.focused
    /\ rb.loading = <<>> /\ rb.todo = <<>>
    /\ \E key \in RebaseKeys :
          /\ rb.executing => (key # "enter" /\ rb.raced < MaxRace)
          /\ rb' = [handleRebaseKey_plan(rb, key) EXCEPT
                       !.raced = IF rb.executing THEN @ + 1 ELSE @]

\* helpers.go 441-447, git.go 831-856: the command hands the plan to
\* git.ExecuteRebase, which writes the todo file
RunExecuteRebase ==
    /\ UNCHANGED <<exVars, uiVars, scrollVars, parseVars, syncVars, hookVars,
                   toggleVars, diffVars, suggestVars>>
    /\ ~rb.panicked
    /\ rb.executing /\ rb.todo = <<>>
    /\ rb' = [rb EXCEPT !.todo = ExecuteRebase(rb.rebaseCommits),
                         !.confirmed = <<>>, !.raced = 0]

\* git.go 852 (defer os.Remove), 863-876: the tool has run on the todo file,
\* the file is removed and the command returns
ReturnExecuteRebase ==
    /\ UNCHANGED <<exVars, uiVars, scrollVars, parseVars, syncVars, hookVars,
                   toggleVars, diffVars, suggestVars>>
    /\ ~rb.panicked
    /\ rb.executing /\ rb.todo # <<>>
    /\ rb' = [rb EXCEPT !.executing = FALSE, !.todo = <<>>]

NextRebase ==
    \/ SelectRebase
    \/ SubmitCount
    \/ EscRebase
    \/ DeliverPlan
    \/ RebaseKey
    \/ RunExecuteRebase
    \/ ReturnExecuteRebase

-----------------------------------------------------------------------------
(* Mutations and the reloads that follow them.  The repository is told     *)
(* apart by versions of what `git status` would show: one for the change   *)
(* list, one for the status (branch, ahead/behind, counters).  A command   *)
(* runs in its own goroutine: a load reads the repository when it runs and *)
(* its message reaches Update when it is delivered.                        *)

MaxOps == 3   \* key presses that dispatch a command

Loads == {"loadGitChanges", "loadGitStatus"}

Mutations == {"toggleStaging", "pushChanges"}

\* helpers.go 19-31: what a load reads
Reads(name) == IF name = "loadGitChanges" THEN "changes" ELSE "status"

\* helpers.go 116-122 (the batch toggleStaging returns on success) and
\* helpers.go 373-383, hooks.go 331-334 (pushOutputMsg starts nothing)
FollowUps(name) ==
    IF name = "toggleStaging" THEN <<"loadGitChanges", "loadGitStatus">>
    ELSE <<>>

\* git add / git reset change the change list and the counters of the
\* status; git push changes the ahead count of the status.
Effect(name, repo) ==
    IF name = "toggleStaging"
    THEN [changes |-> repo.changes + 1, status |-> repo.status + 1]
    ELSE [repo EXCEPT !.status = @ + 1]

\* commands names, newly dispatched, with the ids from..from+Len(names)-1
Dispatched(names, from) ==
    {[id |-> from + i - 1, name |-> names[i], read |-> -1] :
        i \in DOMAIN names}

\* after the first loads (Init, hooks.go 256-262) have been delivered
SyncIdle ==
    sync = [repo |-> [changes |-> 0, status |-> 0],
            shown |-> [changes |-> 0, status |-> 0],
            flight |-> {}, next |-> 0, ops |-> 0, mutated |-> FALSE]

\* hooks.go 469-473: "1" reloads changes and status
KeyRefresh ==
    /\ UNCHANGED <<exVars, uiVars, scrollVars, parseVars, rebaseVars, hookVars,
                   toggleVars, diffVars, suggestVars>>
    /\ sync.ops < MaxOps
    /\ sync' = [sync EXCEPT
                   !.ops = @ + 1, !.next = @ + 2,
                   !.flight = @ \cup Dispatched(<<"loadGitChanges",
                                                  "loadGitStatus">>, sync.next)]

\* hooks.go 592-594 (space: toggleStaging), 917-921 (p, p: pushChanges)
KeyMutate ==
    /\ UNCHANGED <<exVars, uiVars, scrollVars, parseVars, rebaseVars, hookVars,
                   toggleVars, diffVars, suggestVars>>
    /\ sync.ops < MaxOps
    /\ \E name \in Mutations :
          sync' = [sync EXCEPT
                     !.ops = @ + 1, !.next = @ + 1,
                     !.flight = @ \cup Dispatched(<<name>>, sync.next)]

\* helpers.go 97-124, 373-383: the mutation runs; on success the
\* repository has changed and the follow-up commands are started, on
\* failure only a status message comes back.
RunMutation ==
    /\ UNCHANGED <<exVars, uiVars, scrollVars, parseVars, rebaseVars, hookVars,
                   toggleVars, diffVars, suggestVars>>
    /\ \E c \in sync.flight : \E ok \in BOOLEAN :
          /\ c.name \in Mutations
          /\ sync' =
                IF ok
                THEN [sync EXCEPT
                        !.repo = Effect(c.name, @),
                        !.mutated = TRUE,
                        !.next = @ + Len(FollowUps(c.name)),
                        !.flight = (@ \ {c})
                           \cup Dispatched(FollowUps(c.name), sync.next)]
                ELSE [sync EXCEPT !.flight = @ \ {c}]

\* helpers.go 21, 28: git.GetChanges / git.GetStatus read the repository
RunLoad ==
    /\ UNCHANGED <<exVars, uiVars, scrollVars, parseVars, rebaseVars, hookVars,
                   toggleVars, diffVars, suggestVars>>
    /\ \E c \in sync.flight :
          /\ c.name \in Loads /\ c.read = -1
          /\ sync' = [sync EXCEPT
                         !.flight = (@ \ {c})
                            \cup {[c EXCEPT !.read = sync.repo[Reads(c.name)]]}]

\* hooks.go 281-297: gitChangesMsg / gitStatusMsg replace what the view holds
DeliverLoad ==
    /\ UNCHANGED <<exVars, uiVars, scrollVars, parseVars, rebaseVars, hookVars,
                   toggleVars, diffVars, suggestVars>>
    /\ \E c \in sync.flight :
          /\ c.name \in Loads /\ c.read # -1
          /\ sync' = [sync EXCEPT
                         !.flight = @ \ {c},
                         !.shown[Reads(c.name)] = c.read]

NextSync ==
    \/ KeyRefresh
    \/ KeyMutate
    \/ RunMutation
    \/ RunLoad
    \/ DeliverLoad

-----------------------------------------------------------------------------
(* A list window: the cursor of one list, its scroll offset and the window  *)
(* height, under navigation, resizing and list replacement.                 *)

MaxHeight == 18   \* tallest window

MaxRows == 4      \* longest list shown in the window

\* main.go 52
uiOverhead == 9

ScrollLists ==
    {"files", "branches", "undo", "history", "stash", "tags", "log", "blame"}

\* hooks.go 1463, 1477 and alike: the rows the list's own chrome takes.
ListChrome(list) == IF list = "files" THEN 7 ELSE 4

\* hooks.go 1463-1466 and alike
visibleItems(list, h) ==
    IF h - uiOverhead - ListChrome(list) < 1 THEN 1
    ELSE h - uiOverhead - ListChrome(list)

\* The adjustment without the advance of the offset.
adjustScroll_noAdvance(list, cursor, offset, h) ==
    IF cursor < offset THEN cursor ELSE offset

\* hooks.go 1468-1473 and alike: the offset after adjust*Scroll.
adjustScroll(list, cursor, offset, h) ==
    LET o1 == IF cursor < offset THEN cursor ELSE offset
    IN  IF cursor >= o1 + visibleItems(list, h)
        THEN cursor - visibleItems(list, h) + 1
        ELSE o1

NoWin == [list |-> "none", height |-> 0, len |-> 0, cursor |-> 0,
          offset |-> 0]

ScrollIdle == win = NoWin

\* initialModel: no list loaded, cursors, offsets and height at zero.
ScrollInit ==
    win \in {[NoWin EXCEPT !.list = l] : l \in ScrollLists}

\* hooks.go 271-274: tea.WindowSizeMsg
WindowSize ==
    /\ UNCHANGED <<exVars, uiVars, parseVars, rebaseVars, syncVars, hookVars,
                   toggleVars, diffVars, suggestVars>>
    /\ \E h \in 0..MaxHeight : win' = [win EXCEPT !.height = h]

\* hooks.go 281-286, 299-303, 306-308, 346-357, 372-377, 388-392: the list
\* is replaced; five cursors are clamped, the blame cursor and offset are
\* reset, the undo and history cursors are left.
ListResult ==
    /\ UNCHANGED <<exVars, uiVars, parseVars, rebaseVars, syncVars, hookVars,
                   toggleVars, diffVars, suggestVars>>
    /\ \E n \in 0..MaxRows :
          win' = CASE win.list \in {"files", "branches", "stash", "tags",
                                    "log"} ->
                        [win EXCEPT !.len = n,
                                    !.cursor = Clamp(win.cursor, n)]
                   [] win.list = "blame" ->
                        [win EXCEPT !.len = n, !.cursor = 0, !.offset = 0]
                   [] OTHER -> [win EXCEPT !.len = n]

\* hooks.go 570-574, 767-771, 1011-1014, 1088-1091, 1135-1138, 1216-1219,
\* 1335-1338, 526-529
CursorDown ==
    /\ UNCHANGED <<exVars, uiVars, parseVars, rebaseVars, syncVars, hookVars,
                   toggleVars, diffVars, suggestVars>>
    /\ win.cursor < win.len - 1
    /\ win' = [win EXCEPT
                 !.cursor = win.cursor + 1,
                 !.offset = adjustScroll(win.list, win.cursor + 1,
                                         win.offset, win.height)]

\* hooks.go 581-585, 774-777, 1017-1020, 1094-1097, 1145-1148, 1222-1225,
\* 1341-1344, 532-535
CursorUp ==
    /\ UNCHANGED <<exVars, uiVars, parseVars, rebaseVars, syncVars, hookVars,
                   toggleVars, diffVars, suggestVars>>
    /\ win.cursor > 0
    /\ win' = [win EXCEPT
                 !.cursor = win.cursor - 1,
                 !.offset = adjustScroll(win.list, win.cursor - 1,
                                         win.offset, win.height)]

NextScroll ==
    \/ WindowSize
    \/ ListResult
    \/ CursorDown
    \/ CursorUp

-----------------------------------------------------------------------------
(* Staging toggles: the space key of the workspace (hooks.go 592-596)      *)
(* returns toggleStaging (helpers.go 97-124), a command that runs off the  *)
(* event loop: it asks git.IsFileStaged (git.go 398-413), then runs add or *)
(* reset through git.Execute.  Several toggles can be in flight, and the   *)
(* two steps of one can fall either side of the steps of another.          *)

MaxToggles == 2   \* toggle commands dispatched in one run

StageFiles == {"a.go", "b.go"}

ToggleIdle ==
    tg = [staged |-> [f \in StageFiles |-> FALSE],
          orig   |-> [f \in StageFiles |-> FALSE], jobs |-> <<>>]

\* Any file may be staged when the first toggle is dispatched; orig keeps
\* that index for comparison.
ToggleInit ==
    \E staged \in [StageFiles -> BOOLEAN] :
       tg = [staged |-> staged, orig |-> staged, jobs |-> <<>>]

\* hooks.go 592-596: space on the file under the cursor.
ToggleKey ==
    /\ UNCHANGED <<exVars, uiVars, scrollVars, parseVars, rebaseVars,
                   syncVars, hookVars, diffVars, suggestVars>>
    /\ Len(tg.jobs) < MaxToggles
    /\ \E file \in StageFiles :
          tg' = [tg EXCEPT !.jobs = Append(@, [file |-> file, pc |-> "check",
                                                isStaged |-> FALSE,
                                                failed |-> FALSE])]

\* helpers.go 99 and git.go 398-413: the file is looked up in the output of
\* `git diff --cached --name-only`; when that command fails the answer is
\* false.
RunIsFileStaged ==
    /\ UNCHANGED <<exVars, uiVars, scrollVars, parseVars, rebaseVars,
                   syncVars, hookVars, diffVars, suggestVars>>
    /\ \E i \in DOMAIN tg.jobs :
          /\ tg.jobs[i].pc = "check"
          /\ \E err \in BOOLEAN :
                tg' = [tg EXCEPT
                         !.jobs[i].pc = "act",
                         !.jobs[i].failed = err,
                         !.jobs[i].isStaged =
                             IF err THEN FALSE
                             ELSE tg.staged[tg.jobs[i].file]]

\* helpers.go 101-114: `reset HEAD file` when the answer was true, else
\* `add file`; a failed command leaves the index as it is.
RunToggleExecute ==
    /\ UNCHANGED <<exVars, uiVars, scrollVars, parseVars, rebaseVars,
                   syncVars, hookVars, diffVars, suggestVars>>
    /\ \E i \in DOMAIN tg.jobs :
          /\ tg.jobs[i].pc = "act"
          /\ \E err \in BOOLEAN :
                tg' = [tg EXCEPT
                         !.jobs[i].pc = "done",
                         !.jobs[i].failed = @ \/ err,
                         !.staged[tg.jobs[i].file] =
                             IF err THEN @ ELSE ~tg.jobs[i].isStaged]

NextToggle ==
    \/ ToggleKey
    \/ RunIsFileStaged
    \/ RunToggleExecute

-----------------------------------------------------------------------------
(* The diff pane of the workspace files view.  m.diffContent is written by *)
(* Update on diffMsg and on stashDiffMsg (hooks.go 314-316, 368-370); the  *)
(* messages come from loadFileDiff (helpers.go 66-72) and loadStashDiff    *)
(* (helpers.go 472-477), commands that run off the event loop and finish   *)
(* in any order.  Files are numbered by their place in the change list; a  *)
(* diff is named by what it is the diff of.                                *)

MaxFiles == 2      \* longest change list

MaxDiffKeys == 3   \* key presses in one run

NoDiff == [of |-> "none", n |-> 0]

FileDiff(file) == [of |-> "file", n |-> file]

StashDiff == [of |-> "stash", n |-> 0]

\* A command in flight: "loadGitChanges", or a diff load with its result.
DiffLoad(id, name, diff) == [id |-> id, name |-> name, diff |-> diff]

DiffStart(changes, flight) ==
    [changes |-> changes, fileCursor |-> 0,
     diffContent |-> IF changes > 0 THEN FileDiff(0) ELSE NoDiff,
     flight |-> flight, next |-> 1, keys |-> 0]

DiffIdle == dv = DiffStart(0, {})

\* The files view once the first loads are in: the diff of the first file
\* is shown.  The user may have come from the stash view (hooks.go
\* 1133-1153) with a preview still being computed.
DiffInit ==
    \E changes \in 1..MaxFiles :
       \E flight \in {{}, {DiffLoad(0, "loadStashDiff", StashDiff)}} :
          dv = DiffStart(changes, flight)

\* hooks.go 570-590: j and k move the cursor and load the diff of the file
\* under it.
DiffCursorKey ==
    /\ UNCHANGED <<exVars, uiVars, scrollVars, parseVars, rebaseVars,
                   syncVars, hookVars, toggleVars, suggestVars>>
    /\ dv.keys < MaxDiffKeys
    /\ \E key \in {"j", "k"} :
          LET moved == IF key = "j"
                       THEN dv.fileCursor < dv.changes - 1
                       ELSE dv.fileCursor > 0
              c     == IF key = "j" THEN dv.fileCursor + 1
                       ELSE dv.fileCursor - 1
          IN  dv' = IF moved
                    THEN [dv EXCEPT
                            !.keys = @ + 1, !.fileCursor = c,
                            !.next = IF c < dv.changes THEN @ + 1 ELSE @,
                            !.flight =
                                IF c < dv.changes
                                THEN @ \cup {DiffLoad(dv.next, "loadFileDiff",
                                                      FileDiff(c))}
                                ELSE @]
                    ELSE [dv EXCEPT !.keys = @ + 1]

\* hooks.go 469-473: "1" reloads the change list.
DiffReloadKey ==
    /\ UNCHANGED <<exVars, uiVars, scrollVars, parseVars, rebaseVars,
                   syncVars, hookVars, toggleVars, suggestVars>>
    /\ dv.keys < MaxDiffKeys
    /\ dv' = [dv EXCEPT
                !.keys = @ + 1, !.next = @ + 1,
                !.flight = @ \cup {DiffLoad(dv.next, "loadGitChanges",
                                            NoDiff)}]

\* hooks.go 281-293: gitChangesMsg replaces the list, clamps the cursor and
\* loads the diff of the file under it.
DeliverChanges ==
    /\ UNCHANGED <<exVars, uiVars, scrollVars, parseVars, rebaseVars,
                   syncVars, hookVars, toggleVars, suggestVars>>
    /\ \E c \in dv.flight :
          /\ c.name = "loadGitChanges"
          /\ \E changes \in 0..MaxFiles :
                LET fc == Clamp(dv.fileCursor, changes)
                IN  dv' = [dv EXCEPT
                             !.changes = changes, !.fileCursor = fc,
                             !.next = IF changes > 0 THEN @ + 1 ELSE @,
                             !.flight =
                                 (@ \ {c}) \cup
                                 (IF changes > 0 /\ fc < changes
                                  THEN {DiffLoad(dv.next, "loadFileDiff",
                                                 FileDiff(fc))}
                                  ELSE {})]

\* hooks.go 314-316, 368-370: diffMsg and stashDiffMsg both assign
\* m.diffContent.
DeliverDiff ==
    /\ UNCHANGED <<exVars, uiVars, scrollVars, parseVars, rebaseVars,
                   syncVars, hookVars, toggleVars, suggestVars>>
    /\ \E c \in dv.flight :
          /\ c.name \in {"loadFileDiff", "loadStashDiff"}
          /\ dv' = [dv EXCEPT !.diffContent = c.diff, !.flight = @ \ {c}]

NextDiff ==
    \/ DiffCursorKey
    \/ DiffReloadKey
    \/ DeliverChanges
    \/ DeliverDiff

-----------------------------------------------------------------------------
(* Commit suggestions: helpers.go generateCommitSuggestions and            *)
(* categorizeChange, the commitSuggestionsMsg case of Update, and the      *)
(* suggestion keys of handleCommitKey.  A file name is a sequence of       *)
(* tokens, a status the two characters of the porcelain column.            *)

MaxChanges == 2
MaxSuggestKeys == 3
MaxGens == 2

\* strings.ToLower on the tokens of the file names below.
ToLower(tok) ==
    CASE tok = "README" -> "readme"
      [] tok = "Makefile" -> "makefile"
      [] OTHER -> tok

\* helpers.go 271-291
categorizeChange(change) ==
    LET file == [i \in DOMAIN change.File |-> ToLower(change.File[i])]
        Has(w) == \E i \in DOMAIN file : file[i] = w
    IN  IF Has("test") THEN "test"
        ELSE IF file[Len(file)] = ".md" \/ Has("doc") THEN "docs"
        ELSE IF \/ Has("config")
                \/ file[1] = "."
                \/ file = <<"makefile">>
                \/ file = <<"dockerfile">>
             THEN "chore"
        ELSE IF change.Status = <<"A", " ">> THEN "feat"
        ELSE IF \E i \in DOMAIN change.Status : change.Status[i] = "M"
             THEN "refactor"
        ELSE "chore"

\* helpers.go 246-263: the format of the message of each type; the %d is
\* the second element of the Message below.
MessageOf(changeType) ==
    CASE changeType = "feat" -> "feat: add new feature (%d files)"
      [] changeType = "fix" -> "fix: resolve issue (%d files)"
      [] changeType = "docs" -> "docs: update documentation (%d files)"
      [] changeType = "style" -> "style: improve formatting (%d files)"
      [] changeType = "refactor" ->
           "refactor: improve code structure (%d files)"
      [] changeType = "test" -> "test: add/update tests (%d files)"
      [] changeType = "chore" -> "chore: update build/config (%d files)"
      [] OTHER -> "chore: update files (%d files)"

\* helpers.go 228-269: the lists one run of the command can return.  The
\* suggestions are appended while ranging over the map typeCount, and the
\* iteration order of a Go map is not specified: every order of the types
\* present is a possible result.
generateCommitSuggestions(changes) ==
    LET present == {categorizeChange(changes[i]) : i \in DOMAIN changes}
        typeCount ==
            [t \in present |->
                Cardinality({i \in DOMAIN changes :
                                categorizeChange(changes[i]) = t})]
        orders ==
            {o \in [1..Cardinality(present) -> present] :
                \A i, j \in DOMAIN o : o[i] = o[j] => i = j}
    IN  IF Len(changes) = 0 THEN {<<>>}
        ELSE {[i \in DOMAIN o |->
                  [Message |-> <<MessageOf(o[i]), typeCount[o[i]]>>,
                   Type |-> o[i]]] : o \in orders}

\* The changes git.GetChanges may report.
SuggestChanges ==
    [File : {<<"main", ".go">>, <<"main_", "test", ".go">>,
             <<"README", ".md">>, <<"Makefile">>},
     Status : {<<"A", " ">>, <<" ", "M">>, <<"?", "?">>}]

\* gitChangesMsg has been delivered and its generateCommitSuggestions is
\* queued.  first and last are the results of the first and of the latest
\* run, chosen is the message the selected index denoted when it was last
\* moved, committed the message handed to commitWithMessage.
SuggestStart(changes, queued) ==
    [changes |-> changes, suggestions |-> <<>>, selectedSuggestion |-> 0,
     queued |-> queued, inbox |-> {}, gens |-> 0, loads |-> queued,
     first |-> <<>>, last |-> <<>>, chosen |-> <<>>, committed |-> <<>>,
     keys |-> 0]

SuggestIdle == sg = SuggestStart(<<>>, 0)

SuggestInit ==
    \E n \in 0..MaxChanges :
       \E changes \in [1..n -> SuggestChanges] :
          sg = SuggestStart(changes, 1)

\* The model value of the commit tab with the suggestions of sg.
SuggestModel ==
    [initialModel EXCEPT !.tab = "commit",
                         !.changes = Len(sg.changes),
                         !.suggestions = Len(sg.suggestions),
                         !.selectedSuggestion = sg.selectedSuggestion]

\* hooks.go 693-719: up and down move the selected index, enter commits
\* with m.suggestions[m.selectedSuggestion-1].Message.
SuggestKey ==
    /\ UNCHANGED <<exVars, uiVars, scrollVars, parseVars, rebaseVars,
                   syncVars, hookVars, toggleVars, diffVars>>
    /\ sg.keys < MaxSuggestKeys
    /\ sg.committed = <<>>
    /\ \E key \in {"up", "down", "enter"} :
          LET r == handleKeyPress(SuggestModel, key)
              sel == r.m.selectedSuggestion
          IN  sg' = [sg EXCEPT
                       !.keys = @ + 1,
                       !.selectedSuggestion = sel,
                       !.chosen =
                           IF key = "enter" THEN @
                           ELSE IF sel > 0
                                THEN sg.suggestions[sel].Message
                                ELSE <<>>,
                       !.committed =
                           IF r.cmd # <<>>
                              /\ r.cmd[1].name = "commitWithMessage"
                           THEN sg.suggestions[r.cmd[1].arg].Message
                           ELSE @]

\* hooks.go 281-293: a reload delivers gitChangesMsg, here with the change
\* list unchanged, and Update starts generateCommitSuggestions again.
ReloadChanges ==
    /\ UNCHANGED <<exVars, uiVars, scrollVars, parseVars, rebaseVars,
                   syncVars, hookVars, toggleVars, diffVars>>
    /\ sg.loads < MaxGens
    /\ LET r == Update(SuggestModel,
                       Msg("gitChangesMsg", Len(sg.changes), <<>>))
       IN  sg' = [sg EXCEPT
                    !.loads = @ + 1,
                    !.queued =
                        @ + Cardinality(
                               {i \in DOMAIN r.cmd :
                                   r.cmd[i].name =
                                       "generateCommitSuggestions"})]

\* helpers.go 228-269: one queued command runs.
RunGenerateCommitSuggestions ==
    /\ UNCHANGED <<exVars, uiVars, scrollVars, parseVars, rebaseVars,
                   syncVars, hookVars, toggleVars, diffVars>>
    /\ sg.queued > 0
    /\ \E s \in generateCommitSuggestions(sg.changes) :
          sg' = [sg EXCEPT
                   !.queued = @ - 1,
                   !.inbox = @ \cup {s},
                   !.gens = @ + 1,
                   !.first = IF sg.gens = 0 THEN s ELSE @,
                   !.last = s]

\* hooks.go 342-344: commitSuggestionsMsg replaces m.suggestions.
DeliverSuggestions ==
    /\ UNCHANGED <<exVars, uiVars, scrollVars, parseVars, rebaseVars,
                   syncVars, hookVars, toggleVars, diffVars>>
    /\ \E s \in sg.inbox :
          sg' = [sg EXCEPT !.suggestions = s, !.inbox = @ \ {s}]

NextSuggest ==
    \/ SuggestKey
    \/ ReloadChanges
    \/ RunGenerateCommitSuggestions
    \/ DeliverSuggestions

-----------------------------------------------------------------------------
(* Hook files: hooks.go (package git) IsHookInstalled, InstallHook and     *)
(* RemoveHook on the files of .git/hooks, the install*Hook and             *)
(* removeSelectedHook commands of helpers.go, and the two flags of the     *)
(* model that Update sets from their messages.  A file is its permission   *)
(* bits ("absent" when there is none) and the script it holds.             *)

MaxHookOps == 2   \* key presses in the hooks tool in one run

HookNames == {"commit-msg", "pre-commit"}

NoFile == [mode |-> "absent", content |-> ""]

\* hooks.go 146-154: os.Stat succeeds and a bit of 0111 is set.
IsHookInstalled(files, hookName) == files[hookName].mode \in {"0755", "0555"}

\* hooks.go 157-173.  os.MkdirAll finds .git/hooks there.  os.WriteFile
\* opens with O_WRONLY|O_CREATE|O_TRUNC: a new file gets the mode 0755 and
\* needs a writable directory; a file that is there keeps its mode and has
\* to be writable itself.
InstallHook(files, dirWritable, hookName, content) ==
    LET f == files[hookName]
    IN  CASE f.mode = "absent" /\ dirWritable ->
               [ok |-> TRUE,
                files |-> [files EXCEPT ![hookName] =
                              [mode |-> "0755", content |-> content]]]
          [] f.mode \in {"0755", "0644"} ->
               [ok |-> TRUE,
                files |-> [files EXCEPT ![hookName].content = content]]
          [] OTHER -> [ok |-> FALSE, files |-> files]

\* hooks.go 176-179: os.Remove needs the file and a writable directory.
RemoveHook(files, dirWritable, hookName) ==
    IF files[hookName].mode # "absent" /\ dirWritable
    THEN [ok |-> TRUE, files |-> [files EXCEPT ![hookName] = NoFile]]
    ELSE [ok |-> FALSE, files |-> files]

\* hooks.go 182-204 and helpers.go 615-650: the hook file, the script and
\* the message of each install command.
HookOf(name) ==
    CASE name = "installConventionalCommitsHook" ->
           [index |-> 0, file |-> "commit-msg",
            script |-> "commitMsgHookScript", msg |-> "hookStatusMsg"]
      [] name = "installNoLargeFilesHook" ->
           [index |-> 1, file |-> "pre-commit",
            script |-> "noLargeFilesHookScript", msg |-> "preCommitHookMsg"]
      [] name = "installDetectSecretsHook" ->
           [index |-> 2, file |-> "pre-commit",
            script |-> "detectSecretsHookScript", msg |-> "preCommitHookMsg"]

\* helpers.go 659-666, 674-678: the file and the message of
\* removeSelectedHook under each cursor.
SelectedHook(cursor) ==
    IF cursor = 0
    THEN [file |-> "commit-msg", msg |-> "hookStatusMsg"]
    ELSE [file |-> "pre-commit", msg |-> "preCommitHookMsg"]

\* The command that ran last, the entry of the hooks view it was for,
\* whether it succeeded, and the files it found.
NoHookOp ==
    [op |-> "none", file |-> "", hook |-> -1, ok |-> FALSE,
     before |-> [n \in HookNames |-> NoFile]]

\* hooks.go 26-32 (AvailableHooks) with 182-204: the three pre-built hooks
\* in the order of the hooks view, each with its hook path and script.
AvailableHooks ==
    <<[file |-> "commit-msg", script |-> "commitMsgHookScript"],
      [file |-> "pre-commit", script |-> "noLargeFilesHookScript"],
      [file |-> "pre-commit", script |-> "detectSecretsHookScript"]>>

HookStart(files, dirWritable) ==
    [files |-> files, dirWritable |-> dirWritable, hookCursor |-> 0,
     commitMsgHookInstalled |-> IsHookInstalled(files, "commit-msg"),
     preCommitHookInstalled |-> IsHookInstalled(files, "pre-commit"),
     queued |-> {}, inbox |-> {}, last |-> NoHookOp, ops |-> 0]

HookIdle == hk = HookStart([n \in HookNames |-> NoFile], TRUE)

\* main.go 412-413: the flags start as IsHookInstalled finds the files,
\* which anyone may have put there with any mode: a script of the user's
\* own, or a pre-built one installed in an earlier session.
HookInit ==
    \E dirWritable \in BOOLEAN :
       \E modes \in [HookNames -> {"absent", "0755", "0644", "0555"}] :
          \E scripts \in [HookNames -> 0..3] :
             /\ \A n \in HookNames :
                   IF scripts[n] = 0 THEN TRUE
                   ELSE /\ modes[n] # "absent"
                        /\ AvailableHooks[scripts[n]].file = n
             /\ hk = HookStart(
                        [n \in HookNames |->
                            IF modes[n] = "absent" THEN NoFile
                            ELSE [mode |-> modes[n],
                                  content |->
                                      IF scripts[n] = 0 THEN "other"
                                      ELSE AvailableHooks[scripts[n]].script]],
                        dirWritable)

\* The keys handleHooksKey names that the global switch of handleKeyPress
\* lets through.
HookKeys == {"j", "k", "r", "enter"}

\* A key press in the hooks tool: handleKeyPress on the model, the command
\* it returns starts running.
HookKeyPress ==
    /\ UNCHANGED <<exVars, uiVars, scrollVars, parseVars, rebaseVars,
                   syncVars, toggleVars, diffVars, suggestVars>>
    /\ hk.ops < MaxHookOps
    /\ \E key \in HookKeys :
          LET r == handleKeyPress(
                      [initialModel EXCEPT !.tab = "tools",
                                           !.toolMode = "hooks",
                                           !.hookCursor = hk.hookCursor],
                      key)
          IN  hk' = [hk EXCEPT
                       !.ops = @ + 1,
                       !.hookCursor = r.m.hookCursor,
                       !.queued = @ \cup {r.cmd[i] : i \in DOMAIN r.cmd}]

\* helpers.go 615-653: an install command runs; on success its batch
\* carries hookStatusMsg(true) or preCommitHookMsg(true).
RunInstallHook ==
    /\ UNCHANGED <<exVars, uiVars, scrollVars, parseVars, rebaseVars,
                   syncVars, toggleVars, diffVars, suggestVars>>
    /\ \E c \in hk.queued :
          /\ c.name # "removeSelectedHook"
          /\ LET h == HookOf(c.name)
                 r == InstallHook(hk.files, hk.dirWritable, h.file, h.script)
             IN  hk' = [hk EXCEPT
                          !.queued = @ \ {c},
                          !.files = r.files,
                          !.inbox = IF r.ok
                                    THEN @ \cup {[type |-> h.msg,
                                                  value |-> TRUE]}
                                    ELSE @,
                          !.last = [op |-> "install", file |-> h.file,
                                    hook |-> h.index, ok |-> r.ok,
                                    before |-> hk.files]]

\* helpers.go 655-683: removeSelectedHook runs with the cursor it was built
\* with; on success its batch carries the message with false.
RunRemoveSelectedHook ==
    /\ UNCHANGED <<exVars, uiVars, scrollVars, parseVars, rebaseVars,
                   syncVars, toggleVars, diffVars, suggestVars>>
    /\ \E c \in hk.queued :
          /\ c.name = "removeSelectedHook"
          /\ LET h == SelectedHook(c.arg)
                 r == RemoveHook(hk.files, hk.dirWritable, h.file)
             IN  hk' = [hk EXCEPT
                          !.queued = @ \ {c},
                          !.files = r.files,
                          !.inbox = IF r.ok
                                    THEN @ \cup {[type |-> h.msg,
                                                  value |-> FALSE]}
                                    ELSE @,
                          !.last = [op |-> "remove", file |-> h.file,
                                    hook |-> c.arg, ok |-> r.ok,
                                    before |-> hk.files]]

\* hooks.go 360-366: Update on hookStatusMsg and preCommitHookMsg.
DeliverHookMsg ==
    /\ UNCHANGED <<exVars, uiVars, scrollVars, parseVars, rebaseVars,
                   syncVars, toggleVars, diffVars, suggestVars>>
    /\ \E msg \in hk.inbox :
          hk' = IF msg.type = "hookStatusMsg"
                THEN [hk EXCEPT !.inbox = @ \ {msg},
                                !.commitMsgHookInstalled = msg.value]
                ELSE [hk EXCEPT !.inbox = @ \ {msg},
                                !.preCommitHookInstalled = msg.value]

NextHooks ==
    \/ HookKeyPress
    \/ RunInstallHook
    \/ RunRemoveSelectedHook
    \/ DeliverHookMsg

InitScroll ==
    ExInit /\ UIInit /\ ScrollInit /\ ParseIdle /\ RebaseIdle /\ SyncIdle
    /\ HookIdle /\ ToggleIdle /\ DiffIdle /\ SuggestIdle

SpecScroll == InitScroll /\ [][NextScroll]_vars

InitParse ==
    ExInit /\ UIInit /\ ScrollIdle /\ ParseInit /\ RebaseIdle /\ SyncIdle
    /\ HookIdle /\ ToggleIdle /\ DiffIdle /\ SuggestIdle

InitRebase ==
    ExInit /\ UIInit /\ ScrollIdle /\ ParseIdle /\ RebaseInit /\ SyncIdle
    /\ HookIdle /\ ToggleIdle /\ DiffIdle /\ SuggestIdle

SpecRebase == InitRebase /\ [][NextRebase]_vars

SpecParse == InitParse /\ [][NextParse]_vars

SideIdle ==
    ScrollIdle /\ ParseIdle /\ RebaseIdle /\ SyncIdle /\ HookIdle
    /\ ToggleIdle /\ DiffIdle /\ SuggestIdle

\* The process after construction: no Execute call made, the model value
\* as initialModel built it.
Init == ExInit /\ UIInit /\ SideIdle

Spec == Init /\ [][Next]_vars

SpecSync == Init /\ [][NextSync]_vars

SpecExec == Init /\ [][NextExec]_vars

\* The log tool after "o" in the tools menu, the delivery of logCommitsMsg
\* and enter on a commit: loadLogDetail (helpers.go 692-702) has returned
\* its batch and the logDetailMsg is on its way to Update.
LogInit ==
    /\ m \in {[initialModel EXCEPT !.tab = "tools", !.toolMode = "log",
                                   !.logCommits = n] : n \in 1..MaxLen}
    /\ cmd = <<>>
    /\ pending = {Cmd("logDetailMsg", 0)}
    /\ keys = 0
    /\ msgs = 0
    /\ running = TRUE

InitLog == ExInit /\ LogInit /\ SideIdle

SpecLog == InitLog /\ [][Next]_vars

InitHooks ==
    ExInit /\ UIInit /\ ScrollIdle /\ ParseIdle /\ RebaseIdle /\ SyncIdle
    /\ HookInit /\ ToggleIdle /\ DiffIdle /\ SuggestIdle

SpecHooks == InitHooks /\ [][NextHooks]_vars

InitToggle ==
    ExInit /\ UIInit /\ ScrollIdle /\ ParseIdle /\ RebaseIdle /\ SyncIdle
    /\ HookIdle /\ ToggleInit /\ DiffIdle /\ SuggestIdle

SpecToggle == InitToggle /\ [][NextToggle]_vars

InitDiff ==
    ExInit /\ UIInit /\ ScrollIdle /\ ParseIdle /\ RebaseIdle /\ SyncIdle
    /\ HookIdle /\ ToggleIdle /\ DiffInit /\ SuggestIdle

SpecDiff == InitDiff /\ [][NextDiff]_vars

InitSuggest ==
    ExInit /\ UIInit /\ ScrollIdle /\ ParseIdle /\ RebaseIdle /\ SyncIdle
    /\ HookIdle /\ ToggleIdle /\ DiffIdle /\ SuggestInit

SpecSuggest == InitSuggest /\ [][NextSuggest]_vars

-----------------------------------------------------------------------------
(* Two-step confirmation of destructive and remote actions.                *)

\* The Operation Commands of the destructive and remote actions
\* (WORK.md 12-21) ...
Destructive ==
    {"discardChanges", "gitResetLastCommit", "deleteBranch", "pushChanges",
     "pullChanges", "undoToCommit", "executeRebase", "stashPop", "stashDrop",
     "deleteTag", "revertCommit", "executeClean"}

\* ... and the confirmAction token of each.
TokenOf(name) ==
    CASE name = "discardChanges"     -> "discard"
      [] name = "gitResetLastCommit" -> "reset-commit"
      [] name = "deleteBranch"       -> "delete-branch"
      [] name = "pushChanges"        -> "push"
      [] name = "pullChanges"        -> "pull"
      [] name = "undoToCommit"       -> "undo"
      [] name = "executeRebase"      -> "rebase"
      [] name = "stashPop"           -> "pop-stash"
      [] name = "stashDrop"          -> "drop-stash"
      [] name = "deleteTag"          -> "delete-tag"
      [] name = "revertCommit"       -> "revert"
      [] name = "executeClean"       -> "clean"
      [] OTHER                       -> ""

NoAction == Cmd("", 0)

\* The view a key press lands in: the list views, where the action keys of
\* the status bar apply, as opposed to the sub-views and focused inputs.
InFileList(mm) == mm.tab = "workspace" /\ mm.viewMode = "files"

InBranchList(mm) ==
    /\ mm.tab = "branches"
    /\ ~mm.branchComparison
    /\ "branchInput" \notin mm.focused

InTool(mm, mode) ==
    /\ mm.tab = "tools"
    /\ mm.toolMode = mode
    /\ ~(mm.toolMode = "rebase" /\ "rebaseInput" \in mm.focused)

\* The keys guarded actions are bound to.
GuardKeys == {"d", "R", "p", "l", "enter"}

\* The guarded action a key asks for in model mm, as the command it is to
\* run on its target, or NoAction when the key is not the key of a guarded
\* action with a valid target there.
GuardedAction(mm, key) ==
    CASE key \notin GuardKeys -> NoAction
      [] InFileList(mm) /\ key = "d" /\ mm.fileCursor < mm.changes ->
           Cmd("discardChanges", mm.fileCursor)
      [] InFileList(mm) /\ key = "R" -> Cmd("gitResetLastCommit", 0)
      [] InBranchList(mm) /\ key = "d"
           /\ mm.branchCursor < Len(mm.branches)
           /\ ~mm.branches[mm.branchCursor + 1] ->
           Cmd("deleteBranch", mm.branchCursor)
      [] InTool(mm, "menu") /\ key = "p" -> Cmd("pushChanges", 0)
      [] InTool(mm, "menu") /\ key = "enter" /\ mm.toolCursor = 6 ->
           Cmd("pushChanges", 0)
      [] InTool(mm, "menu") /\ key = "l" -> Cmd("pullChanges", 0)
      [] InTool(mm, "undo") /\ key = "enter"
           /\ mm.undoCursor < mm.commits ->
           Cmd("undoToCommit", mm.undoCursor)
      [] InTool(mm, "rebase") /\ key = "enter" /\ mm.rebaseCommits > 0 ->
           Cmd("executeRebase", 0)
      [] InTool(mm, "stash") /\ key \in {"p", "enter"}
           /\ mm.stashCursor < mm.stashes ->
           Cmd("stashPop", mm.stashCursor)
      [] InTool(mm, "stash") /\ key = "d"
           /\ mm.stashCursor < mm.stashes ->
           Cmd("stashDrop", mm.stashCursor)
      [] InTool(mm, "tags") /\ "tagInput" \notin mm.focused /\ key = "d"
           /\ mm.tagCursor < mm.tags ->
           Cmd("deleteTag", mm.tagCursor)
      [] InTool(mm, "log") /\ ~mm.logDetail
           /\ "logSearchInput" \notin mm.focused /\ key = "R"
           /\ mm.logCursor < mm.logCommits ->
           Cmd("revertCommit", mm.logCursor)
      [] InTool(mm, "clean") /\ key \in {"d", "enter"}
           /\ mm.cleanFiles > 0 ->
           Cmd("executeClean", 0)
      [] OTHER -> NoAction

DestructiveIn(batch) ==
    {batch[i] : i \in {j \in DOMAIN batch : batch[j].name \in Destructive}}

\* C1: a key press dispatches the command of a destructive or remote
\* action (discard, delete branch, reset or undo commit, rebase, pop or
\* drop stash, delete tag, revert, clean, push, pull) only if confirmAction
\* held that action's token when the key was pressed.  The push of the
\* post-commit summary (hooks.go 676-677) is dispatched with no token.
C1_DispatchOnlyUnderToken ==
    [][keys' = keys + 1 =>
         \A c \in DestructiveIn(cmd') : m.confirmAction = TokenOf(c.name)]_vars

C4_EscClearsToken ==
    m.confirmAction # "" =>
       /\ handleKeyPress(m, "esc").m.confirmAction = ""
       /\ handleKeyPress(m, "esc").cmd = <<>>

\* C5: a key other than the confirming one (another guarded action or any
\* other key but escape) pressed while a token is set clears the token and
\* does not dispatch the pending command.  Only the undo and rebase lists
\* reset the token on other keys (hooks.go 1036, 1082).
C5_OtherKeyClearsToken ==
    m.confirmAction # "" =>
       \A key \in Keys \ {"esc"} :
          TokenOf(GuardedAction(m, key).name) # m.confirmAction =>
             /\ handleKeyPress(m, key).m.confirmAction = ""
             /\ \A c \in DestructiveIn(handleKeyPress(m, key).cmd) :
                   TokenOf(c.name) # m.confirmAction

-----------------------------------------------------------------------------
(* Cursors against the lists the result messages replace.                  *)

\* The list a result message replaces and the cursor that walks it, read
\* in model mm: commitsMsg feeds the undo list (and the history list,
\* whose cursor the handlers of this module do not read).
ListMsgs ==
    {"gitChangesMsg", "branchesMsg", "stashListMsg", "tagListMsg",
     "logCommitsMsg", "commitsMsg", "conflictsMsg", "rebaseCommitsMsg"}

ListLen(mm, type) ==
    CASE type = "gitChangesMsg"    -> mm.changes
      [] type = "branchesMsg"      -> Len(mm.branches)
      [] type = "stashListMsg"     -> mm.stashes
      [] type = "tagListMsg"       -> mm.tags
      [] type = "logCommitsMsg"    -> mm.logCommits
      [] type = "commitsMsg"       -> mm.commits
      [] type = "conflictsMsg"     -> mm.conflicts
      [] type = "rebaseCommitsMsg" -> mm.rebaseCommits

ListCursor(mm, type) ==
    CASE type = "gitChangesMsg"    -> mm.fileCursor
      [] type = "branchesMsg"      -> mm.branchCursor
      [] type = "stashListMsg"     -> mm.stashCursor
      [] type = "tagListMsg"       -> mm.tagCursor
      [] type = "logCommitsMsg"    -> mm.logCursor
      [] type = "commitsMsg"       -> mm.undoCursor
      [] type = "conflictsMsg"     -> mm.conflictCursor
      [] type = "rebaseCommitsMsg" -> mm.rebaseCursor

\* C11: whatever the cursor was, once a result message has replaced a list
\* (files, branches, stashes, tags, log, undo, conflicts, rebase plan) by
\* one of length N', the list's cursor is at most max(0, N'-1).  Update
\* clamps five of the cursors; commitsMsg, conflictsMsg and
\* rebaseCommitsMsg (hooks.go 306-308, 318-320, 327-329) store the list and
\* leave the cursor.
C11_CursorClampedOnReplace ==
    \A c \in pending :
       \A o \in Outcomes(c) :
          o.msg.type \in ListMsgs =>
             LET mm == Update(m, o.msg).m
             IN  ListCursor(mm, o.msg.type)
                   <= Max(0, ListLen(mm, o.msg.type) - 1)

\* C12: after every navigation step that moves the cursor of a list
\* (files, branches, undo, history, stash, tags, log, blame) the list's
\* offset is not negative and offset <= cursor < offset + visibleCount,
\* where visibleCount is the height less the chrome and at least 1, for
\* every window height, 0 included.
C12_CursorInsideWindow ==
    [][(CursorDown \/ CursorUp) =>
         /\ visibleItems(win'.list, win'.height) >= 1
         /\ visibleItems(win'.list, win'.height)
              >= win'.height - uiOverhead - ListChrome(win'.list)
         /\ win'.offset >= 0
         /\ win'.offset <= win'.cursor
         /\ win'.cursor < win'.offset + visibleItems(win'.list, win'.height)
      ]_vars

\* A window of height 0 scrolled down to the third row of its list.
C12_Witness ==
    /\ win.list \in ScrollLists
    /\ win.height = 0
    /\ win.cursor = 2
    /\ win.offset = 2

-----------------------------------------------------------------------------
(* Reloads after a mutation, checked under Spec.                            *)

\* C19: when a commit in flight succeeds, the commands started on its
\* result (by the runtime from a BatchMsg, or by Update on the message)
\* include loadGitChanges, loadGitStatus and loadRecentCommits; when a
\* stage, unstage, add-all or unstage-all in flight succeeds, they include
\* loadGitChanges and loadGitStatus.  Update starts only loadGitChanges and
\* loadGitStatus on commitSuccessMsg (hooks.go 336-340).
C19_ReloadsAfterMutation ==
    \A c \in pending :
       \A o \in Outcomes(c) \ {Reply(StatusMsg)} :
          LET started == IF o.msg.type = "BatchMsg" THEN o.spawn
                         ELSE Update(m, o.msg).cmd
              names   == {started[i].name : i \in DOMAIN started}
          IN  /\ c.name = "commitWithMessage" =>
                    {"loadGitChanges", "loadGitStatus", "loadRecentCommits"}
                       \subseteq names
              /\ c.name \in {"toggleStaging", "gitAddAll", "gitReset"} =>
                    {"loadGitChanges", "loadGitStatus"} \subseteq names

\* C20 (checked under SpecSync): once a mutation has succeeded and no
\* command is in flight any more, the change list and the status the view
\* holds are those of the repository, in whatever order the results were
\* delivered.  A load that read the repository before the mutation can be
\* delivered after the loads that followed the mutation, and a push is
\* followed by no load at all.
C20_ViewMatchesRepository ==
    (sync.mutated /\ sync.flight = {}) => sync.shown = sync.repo

-----------------------------------------------------------------------------
(* Properties of the parsers, checked under SpecParse.                      *)

\* The lines of the porcelain output as the tool printed them.
RawLines == SelectSeq(Split(raw.text, "\n"), LAMBDA l : l # <<>>)

CountOf(lines, Test(_)) == Len(SelectSeq(lines, Test))

\* C13: for every porcelain output GetStatus gives Clean iff the trimmed
\* output is empty, StagedFiles = the number of lines whose first code
\* character is one of M, A, D, R, and UnstagedFiles = the number of lines
\* whose second code character is not a blank.  GetStatus splits the
\* trimmed output (git.go 181, 185), so a first line " M path" is read as
\* "M path"; and it counts every index character but blank and "?".
C13_StatusCounts ==
    ("GetStatus" \in parsed.done /\ ~raw.err) =>
       /\ parsed.status.Clean = (TrimSpace(raw.text) = <<>>)
       /\ parsed.status.StagedFiles
            = CountOf(RawLines, LAMBDA l : l[1] \in {"M", "A", "D", "R"})
       /\ parsed.status.UnstagedFiles
            = CountOf(RawLines, LAMBDA l : l[2] # " ")

\* " M file.go\n?? new.txt\n"
Scenario14 == <<" ", "M", " ", "file.go", "\n", "?", "?", " ", "new.txt", "\n">>

\* C14: the output " M file.go\n?? new.txt\n" parses to StagedFiles = 0,
\* UnstagedFiles = 1, Clean = FALSE and to two Change records with the
\* codes " M" and "??".  GetStatus reads the first line without its
\* leading blank and reports one staged file.
C14_ScenarioParse ==
    (raw.text = Scenario14 /\ ~raw.err) =>
       /\ "GetStatus" \in parsed.done =>
             parsed.status = [Clean |-> FALSE, StagedFiles |-> 0,
                              UnstagedFiles |-> 1]
       /\ "GetChanges" \in parsed.done =>
             /\ Len(parsed.changes) = 2
             /\ parsed.changes[1].Status = <<" ", "M">>
             /\ parsed.changes[2].Status = <<"?", "?">>

\* C15: every Status GetStatus returns, the one of a failed status command
\* included, has Clean = (StagedFiles = 0 /\ UnstagedFiles = 0).  On
\* failure GetStatus returns its zero counters with Clean still false
\* (git.go 177-179).
C15_CleanIffNoCounts ==
    "GetStatus" \in parsed.done =>
       parsed.status.Clean
         = (parsed.status.StagedFiles = 0 /\ parsed.status.UnstagedFiles = 0)

\* C16: a bracketed annotation with "ahead N", "behind M" or both gives
\* exactly the terms it has, the others zero, in the status header
\* (GetAheadBehindCount) and in every line of the branch listing
\* (GetBranches); a bracket without a colon in the branch listing is the
\* upstream name with Ahead = Behind = 0, and a line without a bracket has
\* no upstream.
C16_TrackingTerms ==
    /\ ("GetAheadBehindCount" \in parsed.done /\ ~raw.err) =>
          parsed.counts = [ahead  |-> raw.lines[1].ahead.v,
                           behind |-> raw.lines[1].behind.v]
    /\ ("loadBranches" \in parsed.done /\ ~raw.err) =>
          \A i \in DOMAIN raw.lines :
             /\ parsed.branches[i].Ahead = raw.lines[i].ahead.v
             /\ parsed.branches[i].Behind = raw.lines[i].behind.v
             /\ parsed.branches[i].Upstream
                  = IF raw.lines[i].up THEN <<"origin/main">> ELSE <<>>

\* "ahead 3, behind 2" has been read from the header as 3 and 2
C16_Witness ==
    /\ raw.kind = "header"
    /\ Bracket(raw.text).info
         = <<"ahead", " ", "3", ",", " ", "behind", " ", "2">>
    /\ "GetAheadBehindCount" \in parsed.done
    /\ parsed.counts = [ahead |-> 3, behind |-> 2]

\* the lines of the branch listing that begin with "*"
StarLines ==
    SelectSeq(Split(raw.text, "\n"), LAMBDA l : l # <<>> /\ Head(l) = "*")

\* C17: when exactly one line of the branch listing begins with "*",
\* exactly one Branch of the list handed to the view (local branches with
\* the remote ones appended) has IsCurrent, and its Name is the branch
\* name of that line without the marker.
C17_OneCurrentBranch ==
    ("loadBranches" \in parsed.done /\ ~raw.err /\ Len(StarLines) = 1) =>
       /\ Cardinality({i \in DOMAIN parsed.branches :
                          parsed.branches[i].IsCurrent}) = 1
       /\ \A i \in DOMAIN parsed.branches :
             parsed.branches[i].IsCurrent =>
                /\ i \in DOMAIN raw.lines
                /\ raw.lines[i].cur
                /\ parsed.branches[i].Name = <<raw.lines[i].name>>

\* two local lines, the second one current, and a remote branch appended
C17_Witness ==
    /\ "loadBranches" \in parsed.done
    /\ Len(StarLines) = 1
    /\ Len(raw.lines) = 2
    /\ Len(parsed.branches) = 3
    /\ parsed.branches[2].IsCurrent
    /\ parsed.branches[3].IsRemote

\* C22 (checked under SpecParse): a command never panics, whatever the
\* tool printed, and when the tool failed the command's result is a
\* status message.  GetBlame takes parts[0][:7] of every line of 40 bytes
\* or more, so a line "author <name of 33 bytes or more>" panics
\* (git.go 924-928); and a failed blame comes back as an empty blameMsg
\* (git.go 912-914, helpers.go 709-710).
C22_NoPanicFailureIsStatus ==
    "loadBlame" \in parsed.done =>
       /\ ~parsed.blame.panicked
       /\ raw.err => parsed.blame.type = "statusMsg"

\* the lines of the blame output that begin with a tab
TabLines ==
    SelectSeq(Split(raw.text, "\n"), LAMBDA l : l # <<>> /\ Head(l) = "\t")

\* C26 (checked under SpecParse): for every blame output there is one
\* BlameLine per tab-prefixed line, and the i-th has LineNum = i.  On the
\* outputs on which GetBlame panics (C22) there are no records at all.
C26_BlameLineNumbers ==
    ("loadBlame" \in parsed.done /\ ~raw.err) =>
       /\ Len(parsed.blame.lines) = Len(TabLines)
       /\ \A i \in DOMAIN parsed.blame.lines :
             parsed.blame.lines[i].LineNum = i

\* the block headers of the blame output: the lines that begin with a
\* commit hash
HeaderLines ==
    SelectSeq(Split(raw.text, "\n"),
              LAMBDA l : l # <<>> /\ Head(l) \in {"a1b2c3d...", "e5f6a7b..."})

\* C40 (checked under SpecParse): every BlameLine carries the first seven
\* characters of the hash of the block header that came last before its
\* source line, whatever other header lines the block has.  Each block of
\* the outputs has one header and one source line, so the i-th record
\* belongs to the i-th header.
C40_BlameLineHash ==
    LET Short == ("a1b2c3d..." :> "a1b2c3d") @@ ("e5f6a7b..." :> "e5f6a7b")
    IN  ("loadBlame" \in parsed.done /\ ~raw.err) =>
           \A i \in DOMAIN parsed.blame.lines :
              /\ i <= Len(HeaderLines)
              /\ parsed.blame.lines[i].Hash = Short[HeaderLines[i][1]]

-----------------------------------------------------------------------------
(* Properties of the rebase plan, checked under SpecRebase.                 *)

\* C18: a plan loaded for a valid count is newest first with every action
\* "pick"; the script of a confirmed execution has one line per entry of
\* the plan, in the reverse order of the plan (oldest first), each with
\* the action its entry has.
C18_PlanAndScript ==
    [][/\ (DeliverPlan /\ rb'.rebaseCommits # rb.rebaseCommits) =>
             \A i \in DOMAIN rb'.rebaseCommits :
                /\ rb'.rebaseCommits[i].Action = "pick"
                /\ rb'.rebaseCommits[i].Hash = MaxPlan + 1 - i
       /\ RunExecuteRebase =>
             /\ Len(rb'.todo) = Len(rb.rebaseCommits)
             /\ \A i \in DOMAIN rb'.todo :
                   /\ rb'.todo[i].hash
                        = rb.rebaseCommits[Len(rb.rebaseCommits) + 1 - i].Hash
                   /\ rb'.todo[i].action
                        = rb.rebaseCommits[Len(rb.rebaseCommits) + 1 - i].Action
                   /\ \A j \in DOMAIN rb'.todo :
                         i < j => rb'.todo[i].hash < rb'.todo[j].hash
      ]_vars

\* the plan of three commits with the middle one set to squash, executed
C18_Witness ==
    /\ rb.rebaseCommits = <<[Hash |-> 3, Action |-> "pick"],
                            [Hash |-> 2, Action |-> "squash"],
                            [Hash |-> 1, Action |-> "pick"]>>
    /\ rb.todo = <<[action |-> "pick", hash |-> 1],
                   [action |-> "squash", hash |-> 2],
                   [action |-> "pick", hash |-> 3]>>

\* C21: the script an executing rebase command writes is the script of
\* the plan as it was when the execution was confirmed, whatever keys were
\* pressed since.  The command's closure and the model of the event loop
\* share the plan's backing array (helpers.go 447, hooks.go 1056-1070), so
\* an action letter pressed before the command reads the plan changes the
\* script.
C21_ScriptOfConfirmedPlan ==
    [][RunExecuteRebase => rb'.todo = ExecuteRebase(rb.confirmed)]_vars

\* the count inputs that are an integer in 1..50 once trimmed
ValidCounts ==
    {<<DecDigits[n + 1]>> : n \in 1..(MaxPlan + 1)} \cup {<<" ", "2", " ">>}

\* C24: a count that is not an integer in 1..50 is refused before `git log`
\* is run, with the status message "Invalid count (1-50)"; the plan, the
\* cursor and the confirmation token stay as they were.
C24_InvalidCountRejected ==
    [][(DeliverPlan /\ rb.loading[1] \notin ValidCounts) =>
          /\ \A logErr \in BOOLEAN :
                ~loadRebaseCommits(rb.loading[1], logErr).spawned
          /\ rb' = [rb EXCEPT !.loading = <<>>,
                               !.statusMessage = "Invalid count (1-50)"]
      ]_vars

\* a plan was staged and an action chosen, then a count was refused
C24_Witness ==
    /\ rb.statusMessage = "Invalid count (1-50)"
    /\ rb.loading = <<>>
    /\ Len(rb.rebaseCommits) = 2
    /\ rb.rebaseCommits[2].Action = "squash"
    /\ rb.rebaseCursor = 1

\* C25: a key press that leaves the conflicts view of the workspace leaves
\* no conflict list and the conflict cursor at 0, and a key press that
\* leaves the log tool leaves no commit detail.  (diffContent is written by
\* diffMsg and stashDiffMsg and read by the views only; m keeps no field
\* for it.)
C25_LeavingClearsTransient ==
    [][LET InConflicts(mm) == mm.tab = "workspace" /\ mm.viewMode = "conflicts"
           InLog(mm)       == mm.tab = "tools" /\ mm.toolMode = "log"
       IN  KeyPress =>
             /\ (InConflicts(m) /\ ~InConflicts(m')) =>
                   (m'.conflicts = 0 /\ m'.conflictCursor = 0)
             /\ (InLog(m) /\ ~InLog(m')) => ~m'.logDetail]_vars

\* C27: after an install command that succeeded IsHookInstalled holds for
\* its hook file, whatever file was there before; after a remove that
\* succeeded it does not; a remove that found no file failed and left the
\* files as they were; and once the messages of a successful command are
\* delivered the installed flag of its file says what IsHookInstalled says.
C27_HookRoundTrip ==
    LET l == hk.last
        flag == IF l.file = "commit-msg" THEN hk.commitMsgHookInstalled
                ELSE hk.preCommitHookInstalled
    IN  /\ (l.op = "install" /\ l.ok) => IsHookInstalled(hk.files, l.file)
        /\ (l.op = "remove" /\ l.ok) => ~IsHookInstalled(hk.files, l.file)
        /\ (l.op = "remove" /\ l.before[l.file] = NoFile) =>
              (~l.ok /\ hk.files = l.before)
        /\ (l.op # "none" /\ l.ok /\ hk.queued = {} /\ hk.inbox = {}) =>
              (flag <=> IsHookInstalled(hk.files, l.file))

\* C28: from the post-commit summary, 'c' leaves no summary, and 'p' leaves
\* none either, at the latest when the push has delivered its output.
C28_SummaryClears ==
    (m.tab = "commit" /\ m.commitSummary) =>
       /\ ~handleKeyPress(m, "c").m.commitSummary
       /\ ~Update(handleKeyPress(m, "p").m,
                  Msg("pushOutputMsg", 0, <<>>)).m.commitSummary

\* The text input that has the focus in the view on screen, "" when none.
FocusedInput(mm) ==
    CASE mm.tab = "commit" /\ ~mm.commitSummary
            /\ "commitInput" \in mm.focused -> "commitInput"
      [] mm.tab = "branches" /\ "branchInput" \in mm.focused -> "branchInput"
      [] mm.tab = "tools" /\ mm.toolMode = "rebase"
            /\ "rebaseInput" \in mm.focused -> "rebaseInput"
      [] OTHER -> ""

\* C29: while the commit, branch or rebase-count input has the focus, every
\* printable key is typed into that input: the model after the key is the
\* one the input's Update gives, the tab is the same and no tea.Quit is
\* returned.
C29_FocusedInputGetsPrintable ==
    FocusedInput(m) # "" =>
       \A key \in Printable :
          LET r == handleKeyPress(m, key)
          IN  /\ r.m = TypeKey(m, FocusedInput(m), key)
              /\ r.m.tab = m.tab
              /\ r.cmd # <<Quit>>

\* C30: in the hooks tool '1', '2' and '3' return the install command of the
\* first, second and third hook, the command 'enter' returns with the cursor
\* on that hook, and leave the model in the hooks tool.
C30_HookDigitsInstall ==
    (m.tab = "tools" /\ m.toolMode = "hooks") =>
       \A i \in 0..2 :
          LET digit == <<"1", "2", "3">>[i + 1]
              name  == <<"installConventionalCommitsHook",
                         "installNoLargeFilesHook",
                         "installDetectSecretsHook">>[i + 1]
              r     == handleKeyPress(m, digit)
          IN  /\ r.cmd = <<Cmd(name, 0)>>
              /\ r.cmd = handleKeyPress([m EXCEPT !.hookCursor = i],
                                        "enter").cmd
              /\ r.m.tab = "tools" /\ r.m.toolMode = "hooks"

\* C31: the delivery of repoSwitchMsg (the one message whose Update returns
\* the batch of the three loads and the "Switched to" status) leaves the
\* workspace tab with the tools menu, the files view, no pending
\* confirmation, every list cursor at 0, and every list either empty or
\* with its reload in the batch.
C31_RepoSwitchResets ==
    [][(Deliver /\ cmd' = LoadChanges \o <<Cmd("loadRecentCommits", 0),
                                            Status>>) =>
         LET reloaded == {cmd'[i].name : i \in DOMAIN cmd'}
             Fresh(len, load) == len = 0 \/ load \in reloaded
         IN  /\ m'.tab = "workspace" /\ m'.toolMode = "menu"
             /\ m'.viewMode = "files" /\ m'.confirmAction = ""
             /\ \A c \in {m'.fileCursor, m'.branchCursor, m'.undoCursor,
                           m'.conflictCursor, m'.rebaseCursor, m'.stashCursor,
                           m'.tagCursor, m'.logCursor} : c = 0
             /\ Fresh(m'.changes, "loadGitChanges")
             /\ Fresh(Len(m'.branches), "loadBranches")
             /\ Fresh(m'.commits, "loadCommitHistory")
             /\ Fresh(m'.conflicts, "loadConflicts")
             /\ Fresh(m'.rebaseCommits, "loadRebaseCommits")
             /\ Fresh(m'.stashes, "loadStashList")
             /\ Fresh(m'.tags, "loadTags")
             /\ Fresh(m'.logCommits, "loadLogCommits")]_vars

\* What the command guarded by the pending token would act on: the cursor
\* of its list and the list as far as m keeps it.
ConfirmTarget(mm) ==
    CASE mm.confirmAction = "discard" -> <<mm.fileCursor, mm.changes>>
      [] mm.confirmAction = "delete-branch" ->
           <<mm.branchCursor, Len(mm.branches)>>
      [] mm.confirmAction = "undo" -> <<mm.undoCursor, mm.commits>>
      [] mm.confirmAction \in {"pop-stash", "drop-stash"} ->
           <<mm.stashCursor, mm.stashes>>
      [] mm.confirmAction = "delete-tag" -> <<mm.tagCursor, mm.tags>>
      [] mm.confirmAction = "revert" -> <<mm.logCursor, mm.logCommits>>
      [] mm.confirmAction = "rebase" -> <<0, mm.rebaseCommits>>
      [] mm.confirmAction = "clean" -> <<0, mm.cleanFiles>>
      [] OTHER -> <<0, 0>>

\* C32: a step that leaves a pending token in place leaves the target of
\* its command as it was, so the confirming press acts on what was selected
\* when the token was set.
C32_ConfirmTargetStable ==
    [][(m.confirmAction # "" /\ m'.confirmAction = m.confirmAction) =>
         ConfirmTarget(m') = ConfirmTarget(m)]_vars

\* C33: whenever the rebase plan is non-empty the rebase cursor indexes one
\* of its entries, so no action key has failed on an index out of range.
C33_RebaseCursorInPlan ==
    /\ rb.rebaseCommits # <<>> =>
          (0 <= rb.rebaseCursor /\ rb.rebaseCursor < Len(rb.rebaseCommits))
    /\ ~rb.panicked

\* C34: with a commit detail open in the log tool, escape closes it and
\* stays in the log tool, which is how the commit list is reached again.
C34_EscClosesDetail ==
    (m.tab = "tools" /\ m.toolMode = "log" /\ m.logDetail) =>
       LET r == handleKeyPress(m, "esc")
       IN  ~r.m.logDetail /\ r.m.toolMode = "log"

\* C35: when exactly two toggles were dispatched on a file and both have
\* completed without a failing command, the file is staged or not as it was
\* before the first, however their steps were interleaved.
C35_DoubleToggleRestores ==
    \A f \in StageFiles :
       LET J == {i \in DOMAIN tg.jobs : tg.jobs[i].file = f}
       IN  (/\ Cardinality(J) = 2
            /\ \A i \in J : tg.jobs[i].pc = "done" /\ ~tg.jobs[i].failed)
           => tg.staged[f] = tg.orig[f]

\* C36: in the files view with a file under the cursor, once no command is
\* in flight diffContent is the diff of that file.
C36_DiffOfFileUnderCursor ==
    (dv.flight = {} /\ dv.changes > 0) =>
       dv.diffContent = FileDiff(dv.fileCursor)

\* C37: no key press other than the quit keys ends the event loop: a key
\* handled in rebase mode returns to the loop, it does not panic.
C37_KeyPressNeverEndsLoop ==
    [][RebaseKey => ~rb'.panicked]_vars

\* C38: a successful install or remove leaves every other pre-built hook
\* that was installed (its own script, executable, at its hook path)
\* installed, and with nothing in flight an entry of the hooks view is
\* marked installed only when its own script is the installed one.
C38_HooksIndependent ==
    LET l == hk.last
        Holds(files, h) ==
            /\ files[AvailableHooks[h + 1].file].content =
                  AvailableHooks[h + 1].script
            /\ IsHookInstalled(files, AvailableHooks[h + 1].file)
        Marked(h) ==
            IF AvailableHooks[h + 1].file = "commit-msg"
            THEN hk.commitMsgHookInstalled
            ELSE hk.preCommitHookInstalled
    IN  /\ (l.op # "none" /\ l.ok) =>
              \A h \in (0..2) \ {l.hook} :
                 Holds(l.before, h) => Holds(hk.files, h)
        /\ (hk.queued = {} /\ hk.inbox = {}) =>
              \A h \in 0..2 : Marked(h) => Holds(hk.files, h)

\* C39: every run of generateCommitSuggestions for the same change list
\* returns the list the first run returned, and the message enter commits
\* with is the one the selected index denoted when it was last moved.
C39_SuggestionsStable ==
    /\ sg.gens > 0 => sg.last = sg.first
    /\ sg.committed # <<>> => sg.committed = sg.chosen

\* C23: when the commit or the stash pop that Execute ran failed for a
\* reason other than the lock, that failure is the only one of the call and
\* its last attempt (no retry followed it), and the output the tool wrote
\* stands word for word inside the status message the command returns.
C23_SemanticFailureVerbatim ==
    (/\ exPc = "returned"
     /\ op \in {"commit", "stashPop"}
     /\ seen # <<>>
     /\ seen[Len(seen)] = "fail")
    => LET message == FailureMessage(op, result)
           out     == result.out
       IN  /\ Cardinality({i \in 1..Len(seen) : seen[i] = "fail"}) = 1
           /\ \E i \in 0..(Len(message) - Len(out)) :
                 SubSeq(message, i + 1, i + Len(out)) = out

-----------------------------------------------------------------------------
(* Properties of the command executor, checked under SpecExec.             *)

\* The attempts of the current call that ended in a sleep.
OnlyWaited == \A i \in 1..Len(seen) : seen[i] \in {"marker", "lockfail"}

\* Spawn attempts among the first n that failed on the lock.
LockFailures(n) == Cardinality({i \in 1..n : seen[i] = "lockfail"})

\* C6: Execute ends after at most 3 attempts, marker waits included; when
\* none of the 3 returned a result it returns the lock-conflict error with
\* no output, which no spawned command's own failure produces.
C6_ExecuteEndsWithinThreeAttempts ==
    /\ attempt <= 3
    /\ Len(seen) = attempt
    /\ exPc = "loop" => attempt < 3 /\ ENABLED ExecuteAttempt
    /\ exPc = "returned" =>
          /\ result.set
          /\ OnlyWaited => attempt = 3 /\ result.err = "lockconflict"
                           /\ result.out = <<>>
          /\ ~OnlyWaited => result.err \in {"nil", "exit"}
                            /\ seen[Len(seen)] \in {"ok", "fail"}

C6_Witness ==
    /\ exPc = "returned"
    /\ seen = <<"marker", "lockfail", "marker">>
    /\ result = LockConflict

\* C7: an attempt that finds the marker file spawns nothing, sleeps one
\* backoff interval and goes on to the next attempt; marker on attempt 1,
\* none on attempt 2 and a succeeding command give a successful result
\* after exactly one sleep and one spawn.
C7_MarkerWaitSpawnsNothing ==
    /\ [][(exPc = "loop" /\ lockFile /\ attempt' # attempt) =>
            /\ spawns' = spawns
            /\ lastSpawn' = lastSpawn
            /\ sleeps' = Append(sleeps, retryDelay)
            /\ attempt' = attempt + 1]_vars
    /\ [](seen = <<"marker", "ok">> =>
            /\ exPc # "loop"
            /\ result.err = "nil"
            /\ Len(sleeps) = 1
            /\ spawns = 1)

C7_Witness ==
    /\ exPc = "returned"
    /\ seen = <<"marker", "ok">>
    /\ sleeps = <<100>>

\* C8: a spawn that fails with output that does not mention the lock marker
\* is returned at once, output and error as the tool gave them, with no
\* sleep and no further attempt.
C8_OtherFailureReturnedAtOnce ==
    /\ [][(/\ exPc = "loop"
           /\ spawns' = spawns + 1
           /\ lastSpawn'.outcome.err # "nil"
           /\ ~ContainsLock(lastSpawn'.outcome.out)) =>
            /\ exPc' = "returned"
            /\ result'.out = lastSpawn'.outcome.out
            /\ result'.err = lastSpawn'.outcome.err
            /\ sleeps' = sleeps]_vars
    /\ [][exPc = "returned" =>
            attempt' = attempt /\ spawns' = spawns /\ sleeps' = sleeps]_vars

C8_Witness ==
    /\ exPc = "returned"
    /\ attempt = 1
    /\ sleeps = <<>>
    /\ result = [out |-> <<"nothing", "to", "commit">>, err |-> "exit",
                 set |-> TRUE]

\* C9: every sleep lasts 100ms doubled once per earlier lock failure of the
\* same call: the k-th lock failure is followed by 100 * 2^(k-1), and a
\* marker wait leaves the interval as it was.
C9_BackoffDoublesOnLockFailure ==
    /\ Len(sleeps) <= Len(seen)
    /\ \A i \in 1..Len(sleeps) :
          /\ seen[i] \in {"marker", "lockfail"}
          /\ sleeps[i] = 100 * 2^LockFailures(i - 1)
    /\ retryDelay = 100 * 2^LockFailures(Len(seen))

C9_Witness ==
    /\ seen = <<"lockfail", "marker", "lockfail">>
    /\ sleeps = <<100, 200, 200>>
    /\ retryDelay = 400

\* C10: every invocation of the tool by an operation command or a query is
\* made by Execute.
C10_EverySpawnThroughExecute == lastSpawn.via # "direct"

====
